---- MODULE Spec2Model ----
\* Schema snapshot cache of PostgresSqlService (src/src/constants/sql.ts).
\*
\* The service runs on a single-threaded event loop.  Every action below is
\* one run-to-completion step: the code executed from one event (a call, the
\* answer of the secret store, of a dialog, of the database) over the chain
\* of promise continuations it resolves synchronously-in-order, up to the
\* next await on an external party.  In particular the continuation of
\* `await this.schemaRefreshInFlight` (line 236) is the first reaction
\* registered on the promise of loadSchema and runs in the same microtask
\* checkpoint as the return of loadSchema, so it belongs to the step in which
\* loadSchema returns.
EXTENDS Integers, Sequences, FiniteSets, TLC

\* ---------------------------------------------------------------- constants
SCHEMA_CACHE_TTL_MS == 5 * 60 * 1000
BACKOFF_MS == 30000
\* The delay of the lint timer (src/unnamed/part_002, line 25).
DEBOUNCE_MS == 450

\* ------------------------------------------------------------------- bounds
\* getSchemaSnapshot calls, and the forced ones (refreshSchemaCache) among them.
MaxCalls == 3
MaxForced == 1
\* Steps at which time has passed.
MaxTicks == 1
\* Writes of the secret store (clear or save).
MaxConnOps == 1
\* Calls, time steps and writes of the secret store, together.
MaxEvents == 4
\* Length of the SQL texts scanned, and of the texts put inside a frame.
MaxLen == 4
MaxBody == 2
\* Number of statements of the Python texts parsed.
MaxStatements == 2
\* Number of words and separators of the texts classified.
MaxWords == 4
\* Number of metadata rows, and of from/join clauses of the statements completed.
MaxRows == 2
MaxClauses == 2
\* Number of schedule() calls, and the time the clock may reach, in thirds
\* of the debounce delay.
MaxSchedules == 2
MaxLintTime == 4

\* Date.now() when the service is constructed: far more than the backoff
\* window after the epoch (lastSchemaRefreshFailureAt starts at 0).
StartTime == 2 * BACKOFF_MS
\* Time that may have passed since the previous event when Date.now() is read:
\* none, half a backoff window, or a whole TTL.
Delays == {0, BACKOFF_MS \div 2, SCHEMA_CACHE_TTL_MS}

\* Connection strings; 0 stands for "not set" (undefined or blank).  The
\* one that may be configured when the service is constructed:
ConnStrings == {1}

\* `undefined` where a SchemaSnapshot is expected.
Absent == [id |-> 0, refreshedAt |-> 0, conn |-> 0, epoch |-> 0]

VARIABLES
    now,                        \* Date.now()
    secret,                     \* context.secrets[secretKey]
    config,                     \* pypgsense.postgres.connectionString
    schemaCache,                \* this.schemaCache
    schemaRefreshInFlight,      \* this.schemaRefreshInFlight: 0 or the loadSchema run whose promise it holds
    lastSchemaRefreshFailureAt, \* this.lastSchemaRefreshFailureAt
    refreshes,                  \* the loadSchema runs, in the order they were started (see RunningRefreshes)
    calls,                      \* the getSchemaSnapshot calls, in the order they were issued (see PendingCalls)
    lastNonInteractiveFailureAt, \* when a refresh started by a non-interactive call last failed
    connOp,                     \* clearConnection / saveConnectionFromValues awaiting the secret store
    storeEpoch,                 \* number of writes to the secret store so far
    clearedEpoch,               \* storeEpoch of the latest write whose clear/save has completed
    forced,                     \* forced calls (refreshSchemaCache) issued so far
    okSinceFail,                \* a refresh succeeded after the last one that failed
    connectionReplaced,         \* "saving": saveConnectionFromValues awaits the store; "yes": it has completed; "no": none, or a refresh failed or a call was issued since
    ticks

vars == <<now, secret, config, schemaCache, schemaRefreshInFlight,
          lastSchemaRefreshFailureAt, refreshes, calls,
          lastNonInteractiveFailureAt, connOp, storeEpoch, clearedEpoch,
          forced, okSinceFail, connectionReplaced, ticks>>

\* extractSqlStatements (src/unnamed/part_005): the text, the locals of the
\* loop, and what pushStatement was called with and has pushed.
VARIABLES
    source,                     \* document.getText(), a sequence of characters
    i,                          \* the loop index (0-based, as in the code)
    statementStart,
    inSingleQuote,
    inDoubleQuote,
    inLineComment,
    blockCommentDepth,
    dollarTag,                  \* <<>> is `undefined`
    statements,                 \* the SqlStatement list
    segments,                   \* the (start, end) of every pushStatement call
    sawCode,                    \* the scanner has met, since statementStart, a character outside comments that is no terminator and no whitespace
    pc                          \* "idle", "scan" (in the loop) or "done" (returned)

scanVars == <<source, i, statementStart, inSingleQuote, inDoubleQuote,
              inLineComment, blockCommentDepth, dollarTag, statements,
              segments, sawCode, pc>>

\* No text is being scanned.
ScanIdle ==
    /\ source = <<>>
    /\ i = 0
    /\ statementStart = 0
    /\ inSingleQuote = FALSE
    /\ inDoubleQuote = FALSE
    /\ inLineComment = FALSE
    /\ blockCommentDepth = 0
    /\ dollarTag = <<>>
    /\ statements = <<>>
    /\ segments = <<>>
    /\ sawCode = FALSE
    /\ pc = "idle"

\* extractSqlStringGroups and getPythonSqlCompletionContext
\* (src/src/sql/inlineSql.ts): the parser handed in, the Python text and its
\* syntax tree, the locals of the walk, and what is returned.
VARIABLES
    parser,                     \* FALSE is `undefined`: createPythonParser failed
    pythonSource,               \* the text parsed, a sequence of characters
    root,                       \* tree.rootNode
    stack,                      \* the nodes still to visit
    groups,                     \* the SqlStringGroup list
    seen,                       \* the keys of the groups retained
    context,                    \* what getPythonSqlCompletionContext returns
    visited,                    \* the nodes popped so far: type and extent of each
    offered,                    \* the nodes passed to addSqlGroupFromNode so far
    xpc                         \* "idle", "called", "walk" or "done"

extractVars == <<parser, pythonSource, root, stack, groups, seen, context,
                 visited, offered, xpc>>

\* `undefined` as a result, and the absence of a node.
NoContext == [sqlText |-> <<>>, linePrefix |-> <<>>, found |-> FALSE]
NullNode ==
    [type |-> "null", isNamed |-> FALSE, field |-> "", startIndex |-> 0,
     endIndex |-> 0, text |-> <<>>, children |-> <<>>]

\* Nothing is being extracted.
ExtractIdle ==
    /\ parser = FALSE
    /\ pythonSource = <<>>
    /\ root = NullNode
    /\ stack = <<>>
    /\ groups = <<>>
    /\ seen = {}
    /\ context = NoContext
    /\ visited = <<>>
    /\ offered = <<>>
    /\ xpc = "idle"

\* looksLikeSql (src/src/sql/inlineSql.ts, lines 188-197) called on a text.
VARIABLES
    candidate,                  \* the text, a sequence of characters
    accepted,                   \* what looksLikeSql returned
    cpc                         \* "idle", "called" or "done"

classifyVars == <<candidate, accepted, cpc>>

\* No text is being classified.
ClassifyIdle ==
    /\ candidate = <<>>
    /\ accepted = FALSE
    /\ cpc = "idle"

\* SqlCompletionProvider.provideCompletionItems (src/unnamed/part_004) on a
\* SQL document, with the snapshot buildSchemaSnapshot made of the metadata
\* rows (src/src/constants/sql.ts, lines 485-521).
VARIABLES
    languageId,                 \* document.languageId
    metadataRows,               \* result.rows of the metadata query
    fromClauses,                \* the from/join clauses the SQL text is written from
    sqlText,                    \* context.sqlText, a sequence of characters
    linePrefix,                 \* context.linePrefix
    schemaSnapshot,             \* what getSchemaSnapshot(false, false) returns
    items,                      \* the completion items returned
    ppc                         \* "idle", "start", "ready" (the snapshot is cached) or "done"

completeVars == <<languageId, metadataRows, fromClauses, sqlText, linePrefix,
                  schemaSnapshot, items, ppc>>

\* `undefined` where provideCompletionItems expects a snapshot, and the
\* items of a request not yet answered.
NoSnapshot ==
    [present |-> FALSE, tables |-> <<>>, byQualified |-> <<>>, byName |-> <<>>]
NoItems == [keywords |-> FALSE, tables |-> <<>>, columns |-> <<>>]

\* No completion is being asked for.
CompleteIdle ==
    /\ languageId = ""
    /\ metadataRows = <<>>
    /\ fromClauses = <<>>
    /\ sqlText = <<>>
    /\ linePrefix = <<>>
    /\ schemaSnapshot = NoSnapshot
    /\ items = NoItems
    /\ ppc = "idle"

\* SqlLintManager (src/unnamed/part_002) and the SQL documents of the
\* workspace whose events activate (src/unnamed/part_001) hands to it.
VARIABLES
    documents,                  \* per URI, the TextDocument object now behind it
    timers,                     \* this.timers: per URI, the timer it holds (0: none)
    pendingTimers,              \* the setTimeout timers neither fired nor cleared
    validations,                \* the validateSql calls lintDocument awaits
    diagnostics,                \* this.diagnostics: per URI, whether a diagnostic is set
    lintNow,                    \* the clock, in milliseconds
    scheduleLog,                \* every schedule() call so far: its URI and its time
    started,                    \* every validateSql call made so far
    applied                     \* every result that reached lines 64-75 so far

lintVars == <<documents, timers, pendingTimers, validations, diagnostics,
              lintNow, scheduleLog, started, applied>>

\* The URIs of the SQL documents.
Uris == {"a.sql", "b.sql"}

\* The manager as constructed, before any document is opened.
LintIdle ==
    /\ documents = [u \in Uris |-> [object |-> 0, version |-> 0,
                                     isClosed |-> TRUE, blank |-> TRUE]]
    /\ timers = [u \in Uris |-> 0]
    /\ pendingTimers = {}
    /\ validations = {}
    /\ diagnostics = [u \in Uris |-> FALSE]
    /\ lintNow = 0
    /\ scheduleLog = <<>>
    /\ started = <<>>
    /\ applied = <<>>

VARIABLES
    validateInput,              \* validateSql's sql and the stored connection string
    client,                     \* the pg Client of the call and what was sent on it
    caught,                     \* the value the catch block of lines 196-208 received
    validateResult,             \* what validateSql returns
    vpc                         \* where the validateSql call stands

validateVars == <<validateInput, client, caught, validateResult, vpc>>

NoClient == [created |-> 0, name |-> "", state |-> "none", sent |-> <<>>, ends |-> 0]
NoError == [thrown |-> FALSE]
NoResult == [kind |-> "pending"]

\* No validateSql call was made.
ValidateIdle ==
    /\ validateInput = [sql |-> <<>>, connectionString |-> FALSE]
    /\ client = NoClient
    /\ caught = NoError
    /\ validateResult = NoResult
    /\ vpc = "idle"

\* What no operation of the schema cache, of the scanner, of the extraction,
\* of the classifier, of the completion provider, of the lint manager, of
\* the validation touches.
besidesCache == <<scanVars, extractVars, classifyVars, completeVars, lintVars,
                  validateVars>>
besidesScan == <<vars, extractVars, classifyVars, completeVars, lintVars,
                 validateVars>>
besidesExtract == <<vars, scanVars, classifyVars, completeVars, lintVars,
                    validateVars>>
besidesClassify == <<vars, scanVars, extractVars, completeVars, lintVars,
                     validateVars>>
besidesComplete == <<vars, scanVars, extractVars, classifyVars, lintVars,
                     validateVars>>
besidesLint == <<vars, scanVars, extractVars, classifyVars, completeVars,
                 validateVars>>
besidesValidate == <<vars, scanVars, extractVars, classifyVars, completeVars,
                     lintVars>>

\* The schema cache as constructed, with no connection configured.
CacheIdle ==
    /\ now = StartTime
    /\ secret = 0
    /\ config = 0
    /\ schemaCache = Absent
    /\ schemaRefreshInFlight = 0
    /\ lastSchemaRefreshFailureAt = 0
    /\ refreshes = <<>>
    /\ calls = <<>>
    /\ connOp = "idle"
    /\ storeEpoch = 0
    /\ clearedEpoch = 0
    /\ okSinceFail = FALSE
    /\ connectionReplaced = "no"
    /\ forced = 0
    /\ lastNonInteractiveFailureAt = 0
    /\ ticks = 0

\* Every component but the one named is as constructed and at rest.
IdleBesides(component) ==
    /\ IF component = "cache" THEN TRUE ELSE CacheIdle
    /\ IF component = "scan" THEN TRUE ELSE ScanIdle
    /\ IF component = "extract" THEN TRUE ELSE ExtractIdle
    /\ IF component = "classify" THEN TRUE ELSE ClassifyIdle
    /\ IF component = "complete" THEN TRUE ELSE CompleteIdle
    /\ IF component = "lint" THEN TRUE ELSE LintIdle
    /\ IF component = "validate" THEN TRUE ELSE ValidateIdle

Max(a, b) == IF a >= b THEN a ELSE b

\* Calls issued, time steps taken and writes of the secret store so far.
Events == Len(calls) + ticks + storeEpoch

\* The event happens d after the previous one; Date.now() then reads now'.
Elapse(d) ==
    /\ d # 0 => ticks < MaxTicks /\ Events < MaxEvents
    /\ now' = now + d
    /\ ticks' = IF d # 0 THEN ticks + 1 ELSE ticks

\* A call that has returned, or a loadSchema run that has returned, is kept
\* for the step in which it returns, with what it returned; the next step
\* finds only the calls and the runs that are still awaiting something.
GoneCall ==
    [force |-> FALSE, interactive |-> FALSE, path |-> "gone", pc |-> "gone",
     refresh |-> 0, result |-> Absent, info |-> FALSE, quiet |-> FALSE]

GoneRefresh ==
    [force |-> FALSE, interactive |-> FALSE, phase |-> "done", conn |-> 0,
     epoch |-> 0, queries |-> 0, outcome |-> "gone", errorShown |-> FALSE]

PendingCalls ==
    [k \in DOMAIN calls |->
        IF calls[k].pc = "pending" THEN calls[k] ELSE GoneCall]

RunningRefreshes ==
    [r \in DOMAIN refreshes |->
        IF refreshes[r].phase # "done" THEN refreshes[r] ELSE GoneRefresh]

KeepCalls == calls' = PendingCalls
KeepRefreshes == refreshes' = RunningRefreshes

\* ------------------------------------------------------- getSchemaSnapshot
\* Rule 1 (line 217): a cached snapshot younger than the TTL.
CacheIsFreshLe(force, cache, t) ==
    ~force /\ cache # Absent /\ t - cache.refreshedAt <= SCHEMA_CACHE_TTL_MS

CacheIsFresh(force, cache, t) ==
    ~force /\ cache # Absent /\ t - cache.refreshedAt < SCHEMA_CACHE_TTL_MS

\* Rule 2 (line 221): a refresh is in flight.
JoinsInFlightNever(force, marker) == FALSE

JoinsInFlight(force, marker) == ~force /\ marker # 0

\* Rule 3 (line 225-230): backoff after a failure.
InBackoffInverted(force, interactive, cache, failedAt, t) ==
    ~force /\ ~interactive /\ cache = Absent /\ t - failedAt > BACKOFF_MS

InBackoffAnyCaller(force, interactive, cache, failedAt, t) ==
    ~force /\ cache = Absent /\ t - failedAt < BACKOFF_MS

InBackoffNever(force, interactive, cache, failedAt, t) == FALSE

InBackoff(force, interactive, cache, failedAt, t) ==
    ~force /\ ~interactive /\ cache = Absent /\ t - failedAt < BACKOFF_MS

\* Which return of getSchemaSnapshot a call takes (lines 217-234).
Path(force, interactive, t) ==
    IF CacheIsFresh(force, schemaCache, t) THEN "fast"
    ELSE IF JoinsInFlight(force, schemaRefreshInFlight) THEN "join"
    ELSE IF InBackoff(force, interactive, schemaCache, lastSchemaRefreshFailureAt, t)
         THEN "backoff"
    ELSE "start"

\* line 237: snapshot ?? this.schemaCache
OwnerResult(snapshot, cache) == IF snapshot # Absent THEN snapshot ELSE cache

\* The loadSchema runs that have not returned, and those among them whose
\* metadata query is in flight.
RunningSet == {r \in DOMAIN refreshes : refreshes[r].phase # "done"}
QueryingSet == {r \in DOMAIN refreshes : refreshes[r].phase = "query"}

\* A refresh started by a non-interactive call failed less than BACKOFF_MS
\* before t.
RecentNonInteractiveFailure(t) ==
    /\ lastNonInteractiveFailureAt # 0
    /\ t - lastNonInteractiveFailureAt < BACKOFF_MS

\* What the connection form submits: a string that was never stored before.
SavedConnStrings == {storeEpoch + 2}

\* getConnectionString, lines 289-299: the secret, else the workspace setting.
ConnectionString == IF secret # 0 THEN secret ELSE config

\* loadSchema up to its first await (lines 257-261, 288-289).
NewRefresh(force, interactive) ==
    [force |-> force, interactive |-> interactive, phase |-> "secret",
     conn |-> 0, epoch |-> 0, queries |-> 0, outcome |-> "pending",
     errorShown |-> FALSE]

\* getSchemaSnapshot(forceRefresh, interactive) up to its first await, called
\* d after the previous event.  In this repository the forced calls are the
\* ones refreshSchemaCache makes (line 244), the others come from the
\* completion provider.
GetSchemaSnapshot(force, interactive, d) ==
    /\ Len(calls) < MaxCalls
    /\ force => forced < MaxForced
    /\ forced' = IF force THEN forced + 1 ELSE forced
    /\ Events + (IF d # 0 THEN 1 ELSE 0) < MaxEvents
    /\ Elapse(d)
    /\ LET path == Path(force, interactive, now')
           r == Len(refreshes) + 1
           call == [force |-> force, interactive |-> interactive,
                    path |-> path, pc |-> "pending", refresh |-> 0,
                    result |-> Absent, info |-> FALSE,
                    quiet |-> (schemaCache = Absent /\ RunningSet = {})]
       IN CASE path = "fast" ->
                 /\ calls' = Append(PendingCalls, [call EXCEPT !.pc = "returned", !.result = schemaCache])
                 /\ KeepRefreshes
                 /\ UNCHANGED <<schemaRefreshInFlight>>
            [] path = "join" ->
                 /\ calls' = Append(PendingCalls, [call EXCEPT !.refresh = schemaRefreshInFlight])
                 /\ KeepRefreshes
                 /\ UNCHANGED <<schemaRefreshInFlight>>
            [] path = "backoff" ->
                 /\ calls' = Append(PendingCalls, [call EXCEPT !.pc = "returned"])
                 /\ KeepRefreshes
                 /\ UNCHANGED <<schemaRefreshInFlight>>
            [] path = "start" ->
                 /\ refreshes' = Append(RunningRefreshes, NewRefresh(force, interactive))
                 /\ schemaRefreshInFlight' = r
                 /\ calls' = Append(PendingCalls, [call EXCEPT !.refresh = r])
    /\ connectionReplaced' = IF connectionReplaced = "yes" THEN "no"
                             ELSE connectionReplaced
    /\ UNCHANGED <<secret, config, schemaCache,
                   lastSchemaRefreshFailureAt, connOp, storeEpoch,
                   clearedEpoch, okSinceFail,
                   lastNonInteractiveFailureAt>>
    /\ UNCHANGED besidesCache

\* --------------------------------------------------------------- loadSchema
\* The promise of loadSchema run r resolves with `snapshot`: the call that
\* started r resumes after line 236 and clears the marker (lines 237-239);
\* the calls that returned the same promise (line 222) resolve with it.
\* refreshSchemaCache then reports an interactive, non-absent result
\* (lines 245-250).
Settle(r, done, snapshot, cacheAfter) ==
    /\ refreshes' = [RunningRefreshes EXCEPT ![r] = done]
    /\ calls' = [k \in DOMAIN calls |->
          IF calls[k].refresh = r /\ calls[k].pc = "pending"
          THEN LET res == IF calls[k].path = "start"
                          THEN OwnerResult(snapshot, cacheAfter)
                          ELSE snapshot
               IN [calls[k] EXCEPT
                      !.pc = "returned", !.result = res,
                      !.info = (calls[k].force /\ res # Absent
                                /\ calls[k].interactive)]
          ELSE PendingCalls[k]]
    /\ schemaRefreshInFlight' = 0

\* lines 262-264: no connection string, loadSchema returns this.schemaCache.
ReturnNoConnection(r) ==
    /\ Settle(r, [refreshes[r] EXCEPT !.phase = "done", !.outcome = "noconn"],
              schemaCache, schemaCache)
    /\ UNCHANGED <<schemaCache, lastSchemaRefreshFailureAt,
                   forced, okSinceFail, lastNonInteractiveFailureAt>>

\* lines 266-274: the connection string is known, runQuery is started.
StartQuery(r, c) ==
    /\ refreshes' = [RunningRefreshes EXCEPT ![r] =
          [@ EXCEPT !.phase = "query", !.conn = c, !.epoch = storeEpoch,
                    !.queries = @ + 1]]
    /\ KeepCalls
    /\ UNCHANGED <<schemaRefreshInFlight, schemaCache,
                   lastSchemaRefreshFailureAt, forced, okSinceFail,
                   lastNonInteractiveFailureAt>>

\* getConnectionString, lines 289-308: the secret store answers.
SecretRead(r) ==
    /\ r \in DOMAIN refreshes
    /\ refreshes[r].phase = "secret"
    /\ IF ConnectionString # 0 THEN StartQuery(r, ConnectionString)
       ELSE IF ~refreshes[r].interactive THEN ReturnNoConnection(r)
       ELSE /\ refreshes' = [RunningRefreshes EXCEPT ![r] =
                  [@ EXCEPT !.phase = "prompt"]]
            /\ KeepCalls
            /\ UNCHANGED <<schemaRefreshInFlight, schemaCache,
                           lastSchemaRefreshFailureAt, forced, okSinceFail,
                           lastNonInteractiveFailureAt>>
    /\ UNCHANGED <<now, secret, config, connOp, connectionReplaced, storeEpoch,
                   clearedEpoch, ticks>>
    /\ UNCHANGED besidesCache

\* lines 305-317: the warning is dismissed.
PromptDismiss(r) ==
    /\ r \in DOMAIN refreshes
    /\ refreshes[r].phase = "prompt"
    /\ ReturnNoConnection(r)
    /\ UNCHANGED <<now, secret, config, connOp, connectionReplaced, storeEpoch,
                   clearedEpoch, ticks>>
    /\ UNCHANGED besidesCache

\* lines 309-310, 67-74: 'Set Connection' is chosen and the form is closed
\* without a result; line 311 follows.
FormCancel(r) ==
    /\ r \in DOMAIN refreshes
    /\ refreshes[r].phase = "prompt"
    /\ refreshes' = [RunningRefreshes EXCEPT ![r] = [@ EXCEPT !.phase = "reget"]]
    /\ KeepCalls
    /\ UNCHANGED <<now, secret, config, schemaCache,
                   schemaRefreshInFlight, lastSchemaRefreshFailureAt,
                   connOp, connectionReplaced, storeEpoch, clearedEpoch, forced, okSinceFail,
                   lastNonInteractiveFailureAt, ticks>>
    /\ UNCHANGED besidesCache

\* lines 309-310, 76-77, 103: 'Set Connection' is chosen and the form answers
\* 'clear', the secret is deleted.
FormClear(r) ==
    /\ r \in DOMAIN refreshes
    /\ refreshes[r].phase = "prompt"
    /\ storeEpoch < MaxConnOps /\ Events < MaxEvents
    /\ secret' = 0
    /\ storeEpoch' = storeEpoch + 1
    /\ refreshes' = [RunningRefreshes EXCEPT ![r] =
          [@ EXCEPT !.phase = "stored", !.epoch = storeEpoch + 1]]
    /\ KeepCalls
    /\ UNCHANGED <<now, config, schemaCache, schemaRefreshInFlight,
                   lastSchemaRefreshFailureAt, connOp, connectionReplaced, clearedEpoch,
                   forced, okSinceFail, lastNonInteractiveFailureAt, ticks>>
    /\ UNCHANGED besidesCache

\* lines 309-310, 82, 108-114: 'Set Connection' is chosen and the form answers
\* valid values, the secret is stored.
\* (Invalid values change nothing: lines 83-86 show the form again.)
FormSave(r, c) ==
    /\ r \in DOMAIN refreshes
    /\ refreshes[r].phase = "prompt"
    /\ storeEpoch < MaxConnOps /\ Events < MaxEvents
    /\ secret' = c
    /\ storeEpoch' = storeEpoch + 1
    /\ refreshes' = [RunningRefreshes EXCEPT ![r] =
          [@ EXCEPT !.phase = "stored", !.epoch = storeEpoch + 1]]
    /\ KeepCalls
    /\ UNCHANGED <<now, config, schemaCache, schemaRefreshInFlight,
                   lastSchemaRefreshFailureAt, connOp, connectionReplaced, clearedEpoch,
                   forced, okSinceFail, lastNonInteractiveFailureAt, ticks>>
    /\ UNCHANGED besidesCache

\* lines 104 / 115: the store has answered, the cache is dropped; line 311.
FormStored(r) ==
    /\ r \in DOMAIN refreshes
    /\ refreshes[r].phase = "stored"
    /\ schemaCache' = Absent
    /\ clearedEpoch' = Max(clearedEpoch, refreshes[r].epoch)
    /\ refreshes' = [RunningRefreshes EXCEPT ![r] = [@ EXCEPT !.phase = "reget"]]
    /\ KeepCalls
    /\ UNCHANGED <<now, secret, config, schemaRefreshInFlight,
                   lastSchemaRefreshFailureAt, connOp, connectionReplaced, storeEpoch,
                   forced, okSinceFail, lastNonInteractiveFailureAt, ticks>>
    /\ UNCHANGED besidesCache

\* lines 311-317: the secret is read again after the form.
SecretReread(r) ==
    /\ r \in DOMAIN refreshes
    /\ refreshes[r].phase = "reget"
    /\ IF secret # 0 THEN StartQuery(r, secret) ELSE ReturnNoConnection(r)
    /\ UNCHANGED <<now, secret, config, connOp, connectionReplaced, storeEpoch,
                   clearedEpoch, ticks>>
    /\ UNCHANGED besidesCache

\* buildSchemaSnapshot(rows) called by loadSchema run r at time t: a new
\* object (id r) holding what the connection of r answered and Date.now().
BuildSchemaSnapshotInPlace(r, t) ==
    [id |-> IF schemaCache # Absent THEN schemaCache.id ELSE r,
     refreshedAt |-> t, conn |-> refreshes[r].conn,
     epoch |-> refreshes[r].epoch]

BuildSchemaSnapshot(r, t) ==
    [id |-> r, refreshedAt |-> t, conn |-> refreshes[r].conn,
     epoch |-> refreshes[r].epoch]

\* lines 274-277: the metadata query answers, the snapshot is built and cached.
QuerySucceed(r, d) ==
    /\ r \in DOMAIN refreshes
    /\ refreshes[r].phase = "query"
    /\ Elapse(d)
    /\ LET snapshot == BuildSchemaSnapshot(r, now')
       IN /\ schemaCache' = snapshot
          /\ Settle(r, [refreshes[r] EXCEPT !.phase = "done", !.outcome = "ok"],
                    snapshot, snapshot)
    /\ okSinceFail' = TRUE
    /\ UNCHANGED forced
    /\ UNCHANGED lastNonInteractiveFailureAt
    /\ UNCHANGED <<secret, config, lastSchemaRefreshFailureAt, connOp, connectionReplaced,
                   storeEpoch, clearedEpoch>>
    /\ UNCHANGED besidesCache

\* line 280: whether loadSchema shows the error message of a failed query.
ShowsErrorAlways(force, interactive) == TRUE

ShowsError(force, interactive) == interactive \/ force

\* line 284: what loadSchema returns after a failure.
FailureResultAbsent(cache) == Absent

FailureResult(cache) == cache

\* lines 278-285: the metadata query throws.
QueryFailDropCache(r, d) ==
    /\ r \in DOMAIN refreshes
    /\ refreshes[r].phase = "query"
    /\ Elapse(d)
    /\ lastSchemaRefreshFailureAt' = now'
    /\ schemaCache' = Absent
    /\ Settle(r, [refreshes[r] EXCEPT !.phase = "done", !.outcome = "failed",
                     !.errorShown = ShowsError(refreshes[r].force,
                                               refreshes[r].interactive)],
              Absent, Absent)
    /\ okSinceFail' = FALSE
    /\ UNCHANGED forced
    /\ lastNonInteractiveFailureAt' =
          IF refreshes[r].interactive THEN lastNonInteractiveFailureAt ELSE now'
    /\ connectionReplaced' = "no"
    /\ UNCHANGED <<secret, config, connOp, storeEpoch, clearedEpoch>>
    /\ UNCHANGED besidesCache

QueryFail(r, d) ==
    /\ r \in DOMAIN refreshes
    /\ refreshes[r].phase = "query"
    /\ Elapse(d)
    /\ lastSchemaRefreshFailureAt' = now'
    /\ Settle(r, [refreshes[r] EXCEPT !.phase = "done", !.outcome = "failed",
                     !.errorShown = ShowsError(refreshes[r].force,
                                               refreshes[r].interactive)],
              FailureResult(schemaCache), schemaCache)
    /\ okSinceFail' = FALSE
    /\ UNCHANGED forced
    /\ lastNonInteractiveFailureAt' =
          IF refreshes[r].interactive THEN lastNonInteractiveFailureAt ELSE now'
    /\ connectionReplaced' = "no"
    /\ UNCHANGED <<secret, config, schemaCache, connOp, storeEpoch,
                   clearedEpoch>>
    /\ UNCHANGED besidesCache

\* ------------------------------- clearConnection / saveConnectionFromValues
\* line 103: clearConnection deletes the secret.
ClearConnection ==
    /\ connOp = "idle"
    /\ storeEpoch < MaxConnOps /\ Events < MaxEvents
    /\ secret' = 0
    /\ storeEpoch' = storeEpoch + 1
    /\ connOp' = "stored"
    /\ connectionReplaced' = "no"
    /\ KeepCalls
    /\ KeepRefreshes
    /\ UNCHANGED <<now, config, schemaCache, schemaRefreshInFlight,
                   lastSchemaRefreshFailureAt, clearedEpoch,
                   forced, okSinceFail, lastNonInteractiveFailureAt, ticks>>
    /\ UNCHANGED besidesCache

\* lines 108-114: saveConnectionFromValues with valid values stores the secret.
SaveConnectionFromValues(c) ==
    /\ connOp = "idle"
    /\ storeEpoch < MaxConnOps /\ Events < MaxEvents
    /\ secret' = c
    /\ storeEpoch' = storeEpoch + 1
    /\ connOp' = "stored"
    /\ connectionReplaced' = "saving"
    /\ KeepCalls
    /\ KeepRefreshes
    /\ UNCHANGED <<now, config, schemaCache, schemaRefreshInFlight,
                   lastSchemaRefreshFailureAt, clearedEpoch,
                   forced, okSinceFail, lastNonInteractiveFailureAt, ticks>>
    /\ UNCHANGED besidesCache

\* lines 104 / 115-116: the store has answered, the cache is dropped.
ConnectionStored ==
    /\ connOp = "stored"
    /\ schemaCache' = Absent
    /\ clearedEpoch' = storeEpoch
    /\ connOp' = "idle"
    /\ connectionReplaced' = IF connectionReplaced = "saving" THEN "yes" ELSE "no"
    /\ KeepCalls
    /\ KeepRefreshes
    /\ UNCHANGED <<now, secret, config, schemaRefreshInFlight,
                   lastSchemaRefreshFailureAt, storeEpoch,
                   forced, okSinceFail, lastNonInteractiveFailureAt, ticks>>
    /\ UNCHANGED besidesCache

Init ==
    /\ now = StartTime
    /\ secret \in {0} \cup ConnStrings
    /\ config \in {0} \cup ConnStrings
    /\ schemaCache = Absent
    /\ schemaRefreshInFlight = 0
    /\ lastSchemaRefreshFailureAt = 0
    /\ refreshes = <<>>
    /\ calls = <<>>
    /\ connOp = "idle"
    /\ storeEpoch = 0
    /\ clearedEpoch = 0
    /\ okSinceFail = FALSE
    /\ connectionReplaced = "no"
    /\ forced = 0
    /\ lastNonInteractiveFailureAt = 0
    /\ ticks = 0
    /\ IdleBesides("cache")

Next ==
    \/ \E force \in BOOLEAN, interactive \in BOOLEAN, d \in Delays :
            GetSchemaSnapshot(force, interactive, d)
    \/ \E r \in 1..MaxCalls : SecretRead(r)
    \/ \E r \in 1..MaxCalls : PromptDismiss(r)
    \/ \E r \in 1..MaxCalls : FormCancel(r)
    \/ \E r \in 1..MaxCalls : FormClear(r)
    \/ \E r \in 1..MaxCalls, c \in SavedConnStrings : FormSave(r, c)
    \/ \E r \in 1..MaxCalls : FormStored(r)
    \/ \E r \in 1..MaxCalls : SecretReread(r)
    \/ \E r \in 1..MaxCalls, d \in Delays : QuerySucceed(r, d)
    \/ \E r \in 1..MaxCalls, d \in Delays : QueryFail(r, d)
    \/ ClearConnection
    \/ \E c \in SavedConnStrings : SaveConnectionFromValues(c)
    \/ ConnectionStored

Spec == Init /\ [][Next]_<<vars, besidesCache>>

\* ------------------------------------------------------------------ claims
Last(seq) == seq[Len(seq)]

\* The step issues a getSchemaSnapshot call: Last(calls') is the call, the
\* unprimed variables are the state it finds and now' is the time it reads.
IsCallStep == Len(calls') = Len(calls) + 1

\* The step is the failure of the metadata query of refresh r.
IsFailureStep(r) ==
    /\ r \in DOMAIN refreshes
    /\ refreshes[r].phase = "query"
    /\ refreshes'[r].outcome = "failed"

\* The call of this step finds a cached snapshot younger than the TTL.
FindsFreshSnapshot ==
    schemaCache # Absent /\ now' - schemaCache.refreshedAt < SCHEMA_CACHE_TTL_MS

\* The call of this step is made less than BACKOFF_MS after the last refresh
\* failure.
InFailureWindow ==
    lastSchemaRefreshFailureAt # 0 /\ now' - lastSchemaRefreshFailureAt < BACKOFF_MS

\* The step starts no loadSchema run and leaves the running ones as they are.
StartsNoRefresh ==
    /\ Len(refreshes') = Len(refreshes)
    /\ \A r \in RunningSet : refreshes'[r] = refreshes[r]

\* The call of this step answers `snapshot` at once and starts nothing.
AnswersAtOnce(snapshot) ==
    /\ Last(calls').pc = "returned"
    /\ Last(calls').result = snapshot
    /\ Last(calls').refresh = 0
    /\ StartsNoRefresh
    /\ UNCHANGED <<schemaCache, schemaRefreshInFlight,
                   lastSchemaRefreshFailureAt>>

\* Two successive non-forced calls, the first issued with no snapshot cached
\* and no refresh running, the second awaiting the refresh of the first.
CoalescedPair(k) ==
    /\ ~calls[k].force /\ ~calls[k + 1].force
    /\ calls[k].quiet /\ calls[k].path = "start"
    /\ calls[k + 1].path = "join"
    /\ calls[k + 1].refresh = calls[k].refresh

CoalescedPairsAgree ==
    \A k \in 1..(Len(calls) - 1) :
        CoalescedPair(k)
           => /\ refreshes[calls[k].refresh].queries <= 1
              /\ (refreshes[calls[k].refresh].outcome \in {"ok", "failed"}
                    => refreshes[calls[k].refresh].queries = 1)
              /\ calls[k].pc = calls[k + 1].pc
              /\ calls[k].result = calls[k + 1].result

\* C1: when a non-forced call is issued with no snapshot cached and no refresh
\* running, and the next call, also non-forced, is issued while the first is
\* still pending, the first call has started a refresh, the second starts
\* none and awaits the refresh of the first; that refresh issues at most one
\* metadata query (exactly one once it has succeeded or failed) and both
\* calls return the same value.
C1_TwoCallsOneRefresh ==
    [][/\ (/\ IsCallStep
           /\ calls # <<>>
           /\ Last(calls).pc = "pending" /\ ~Last(calls).force /\ Last(calls).quiet
           /\ ~Last(calls').force)
          => /\ Last(calls).path = "start"
             /\ Last(calls').path = "join"
             /\ Last(calls').refresh = Last(calls).refresh
             /\ StartsNoRefresh
             /\ UNCHANGED schemaRefreshInFlight
       /\ CoalescedPairsAgree']_vars

C1_Witness ==
    \E k \in 1..(Len(calls) - 1) :
        /\ CoalescedPair(k)
        /\ calls[k + 1].pc = "returned"
        /\ calls[k + 1].result # Absent
        /\ refreshes[calls[k].refresh].queries = 1

\* C2: a non-forced call issued while the metadata query of some refresh is
\* in flight and no fresh snapshot is cached starts no refresh: it awaits a
\* running one.
C2_NonForcedNeverStarts ==
    [][(IsCallStep /\ ~Last(calls').force /\ QueryingSet # {} /\ ~FindsFreshSnapshot)
          => /\ Last(calls').path = "join"
             /\ Last(calls').refresh \in RunningSet
             /\ StartsNoRefresh]_vars

\* C3: at most one refresh is in flight; in particular at most one metadata
\* query.
C3_AtMostOneRefresh == Cardinality(QueryingSet) <= 1

\* C4: the calls that await the same refresh, the one that started it and the
\* ones that joined it, return the same value.
C4_SameOutcome ==
    \A j, k \in DOMAIN calls :
        (calls[j].refresh # 0 /\ calls[j].refresh = calls[k].refresh)
           => /\ calls[j].pc = calls[k].pc
              /\ calls[j].result = calls[k].result

C4_Witness ==
    \E j, k \in DOMAIN calls :
        /\ j # k
        /\ calls[j].refresh # 0 /\ calls[j].refresh = calls[k].refresh
        /\ calls[j].pc = "returned" /\ calls[k].pc = "returned"
        /\ refreshes[calls[j].refresh].outcome = "failed"
        /\ calls[j].result # Absent

\* C5: a non-forced call made while the cached snapshot is younger than the
\* TTL returns that snapshot at once, starts no refresh and leaves the cache,
\* the in-flight marker and the failure timestamp unchanged; any other call,
\* in particular one made at age >= TTL, does not take the fast path.
C5_FastPath ==
    [][IsCallStep =>
         IF ~Last(calls').force /\ FindsFreshSnapshot
         THEN Last(calls').path = "fast" /\ AnswersAtOnce(schemaCache)
         ELSE Last(calls').path # "fast"]_vars

\* The last call, non-forced, found a snapshot that is older than nothing and
\* younger than the TTL, and has returned it.
C5_Witness ==
    /\ calls # <<>>
    /\ ~Last(calls).force
    /\ Last(calls).path = "fast" /\ Last(calls).pc = "returned"
    /\ schemaCache # Absent
    /\ Last(calls).result = schemaCache
    /\ now > schemaCache.refreshedAt
    /\ now - schemaCache.refreshedAt < SCHEMA_CACHE_TTL_MS

\* C6 as stated: a non-interactive, non-forced call made less than 30 s after
\* the failure of a non-interactive refresh returns absent and starts no
\* refresh, whatever the cache holds.
C6_BackoffWhateverTheCache ==
    [][(/\ IsCallStep
        /\ ~Last(calls').force /\ ~Last(calls').interactive
        /\ RecentNonInteractiveFailure(now'))
          => /\ Last(calls').path # "start"
             /\ StartsNoRefresh
             /\ (Last(calls').pc = "returned" => Last(calls').result = Absent)]_vars

\* C6 as amended: a non-interactive, non-forced call made less than 30 s after
\* the failure of a non-interactive refresh, while no snapshot is cached and
\* no refresh is marked in flight, returns absent at once and starts no
\* refresh.
C6_BackoffWhenNothingCached ==
    [][(/\ IsCallStep
        /\ ~Last(calls').force /\ ~Last(calls').interactive
        /\ RecentNonInteractiveFailure(now')
        /\ schemaCache = Absent /\ schemaRefreshInFlight = 0)
          => Last(calls').path = "backoff" /\ AnswersAtOnce(Absent)]_vars

\* The last call was answered by the backoff rule, some time after the
\* failure of a non-interactive refresh.
C6_Witness ==
    /\ calls # <<>>
    /\ Last(calls).path = "backoff"
    /\ RecentNonInteractiveFailure(now)
    /\ now > lastSchemaRefreshFailureAt
    /\ schemaCache = Absent

\* C7 as stated: an interactive or forced call made less than 30 s after a
\* refresh failure always attempts a refresh (starts one or awaits one).
C7_AlwaysAttempts ==
    [][(/\ IsCallStep
        /\ (Last(calls').force \/ Last(calls').interactive)
        /\ InFailureWindow)
          => Last(calls').path \in {"start", "join"}]_vars

\* C7 as amended: an interactive or forced call made less than 30 s after a
\* refresh failure is never answered by the backoff rule; a forced call
\* starts a refresh, and an interactive non-forced call starts or joins one
\* unless a snapshot younger than the TTL is cached, which it returns.
C7_NeverSuppressed ==
    [][(/\ IsCallStep
        /\ (Last(calls').force \/ Last(calls').interactive)
        /\ InFailureWindow)
          => /\ Last(calls').path # "backoff"
             /\ Last(calls').force => Last(calls').path = "start"
             /\ Last(calls').path = "fast"
                   => FindsFreshSnapshot /\ AnswersAtOnce(schemaCache)
             /\ Last(calls').path \in {"start", "join"}
                   => Last(calls').refresh \in RunningSet']_vars

\* An interactive non-forced call has just started a refresh although nothing
\* is cached and the last failure is less than BACKOFF_MS old.
C7_Witness ==
    /\ calls # <<>>
    /\ Last(calls).interactive /\ ~Last(calls).force
    /\ Last(calls).path = "start"
    /\ refreshes[Last(calls).refresh].phase = "secret"
    /\ schemaCache = Absent
    /\ lastSchemaRefreshFailureAt # 0
    /\ now - lastSchemaRefreshFailureAt < BACKOFF_MS

\* C8: when the metadata query of a refresh fails, the cached snapshot is left
\* as it is, lastSchemaRefreshFailureAt becomes the time of the failure, and
\* every call awaiting that refresh returns the cached snapshot (absent if
\* there is none).
C8_FailureKeepsCache ==
    [][\A r \in DOMAIN refreshes :
          IsFailureStep(r) =>
             /\ schemaCache' = schemaCache
             /\ lastSchemaRefreshFailureAt' = now'
             /\ \A k \in DOMAIN calls :
                   (calls[k].refresh = r /\ calls[k].pc = "pending")
                      => /\ calls'[k].pc = "returned"
                         /\ calls'[k].result = schemaCache]_vars

C8_Witness ==
    \E k \in DOMAIN calls :
        /\ calls[k].refresh # 0
        /\ refreshes[calls[k].refresh].outcome = "failed"
        /\ calls[k].pc = "returned"
        /\ calls[k].result # Absent
        /\ schemaCache = calls[k].result
        /\ lastSchemaRefreshFailureAt = now

\* C9: a successful refresh clears the failure timestamp, so that no call is
\* answered by the backoff rule on account of a failure that is older than a
\* successful refresh.
C9_NoBackoffAfterSuccess ==
    [][(IsCallStep /\ Last(calls').path = "backoff") => ~okSinceFail]_vars

\* C10: once a clearConnection or saveConnectionFromValues has completed, the
\* cache never holds a snapshot of the old connection, that is, one queried
\* over a connection string that was read before that operation wrote the
\* secret store and that is no longer the configured one.
C10_NoSnapshotOfOldConnection ==
    (schemaCache # Absent /\ schemaCache.epoch < clearedEpoch)
       => schemaCache.conn = ConnectionString

\* The snapshots a state shows: the cached one and the ones that calls have
\* just returned.
ShownSnapshots ==
    ({schemaCache} \cup {calls[k].result : k \in DOMAIN calls}) \ {Absent}

\* C11: a snapshot object is never changed once built: the snapshots a state
\* shows that are the same object (same id) have the same contents, the
\* cached object keeps its contents for as long as it is the cached object,
\* and a step that caches other contents caches an object that was not shown
\* before.
C11_SnapshotImmutable ==
    [][/\ \A x, y \in ShownSnapshots' : x.id = y.id => x = y
       /\ \A x \in ShownSnapshots, y \in ShownSnapshots' : x.id = y.id => x = y]_vars

\* A call has just been handed the cached snapshot after a refresh that failed
\* later than the snapshot was built: the snapshot is as it was built.
C11_Witness ==
    /\ schemaCache # Absent
    /\ lastSchemaRefreshFailureAt > schemaCache.refreshedAt
    /\ \E k \in DOMAIN calls :
          /\ calls[k].pc = "returned"
          /\ calls[k].refresh # 0
          /\ refreshes[calls[k].refresh].outcome = "failed"
          /\ calls[k].result = schemaCache

\* C12: the error message of a failed refresh is shown only when the refresh
\* was started by an interactive or a forced call (and only when its query
\* fails); a refresh started by a non-interactive, non-forced call shows no
\* error and never asks for a connection string.
C12_ErrorOnlyWhenAsked ==
    [][\A r \in RunningSet :
          /\ refreshes'[r].errorShown
                => /\ IsFailureStep(r)
                   /\ refreshes[r].interactive \/ refreshes[r].force
          /\ (~refreshes[r].interactive /\ ~refreshes[r].force)
                => /\ ~refreshes'[r].errorShown
                   /\ refreshes'[r].phase \in {"secret", "query", "done"}]_vars

\* The query of a refresh started by a non-interactive, non-forced call has
\* just failed, and no error was shown.
C12_Witness ==
    \E r \in DOMAIN refreshes :
        /\ refreshes[r].outcome = "failed"
        /\ ~refreshes[r].interactive /\ ~refreshes[r].force
        /\ ~refreshes[r].errorShown
        /\ lastSchemaRefreshFailureAt = now

\* ------------------------------------------------- the statement scanner
\* src/unnamed/part_005: extractSqlStatements and what it calls. A text is a
\* sequence of one-character strings; offsets are 0-based as in the code.
Undefined == ""
At(s, k) == IF k >= 0 /\ k < Len(s) THEN s[k + 1] ELSE Undefined
Slice(s, a, b) == SubSeq(s, a + 1, b)

\* /\s/ and /[A-Za-z0-9_]/, as far as the texts below go.
Whitespace == {" ", "\n", "\t"}
TagChars ==
    {"A", "B", "C", "D", "E", "F", "G", "H", "I", "J", "K", "L", "M", "N", "O",
     "P", "Q", "R", "S", "T", "U", "V", "W", "X", "Y", "Z", "a", "b", "c", "d",
     "e", "f", "g", "h", "i", "j", "k", "l", "m", "n", "o", "p", "q", "r", "s",
     "t", "u", "v", "w", "x", "y", "z", "0", "1", "2", "3", "4", "5", "6", "7",
     "8", "9", "_"}

\* source.startsWith(tag, k)
StartsWith(s, tag, k) ==
    /\ k + Len(tag) <= Len(s)
    /\ Slice(s, k, k + Len(tag)) = tag

\* readDollarTag: the offset of the `$` that ends the tag opened at start, or
\* -1 where the code returns undefined.
RECURSIVE DollarTagEndAnyChar(_, _)
DollarTagEndAnyChar(s, cursor) ==
    IF cursor >= Len(s) THEN -1
    ELSE IF At(s, cursor) = "$" THEN cursor
    ELSE DollarTagEndAnyChar(s, cursor + 1)

RECURSIVE DollarTagEnd(_, _)
DollarTagEnd(s, cursor) ==
    IF cursor >= Len(s) THEN -1
    ELSE IF At(s, cursor) = "$" THEN cursor
    ELSE IF At(s, cursor) \notin TagChars THEN -1
    ELSE DollarTagEnd(s, cursor + 1)

\* <<>> is `undefined`; a tag is never empty, for it holds its two `$`.
readDollarTag(s, start) ==
    IF At(s, start) # "$" THEN <<>>
    ELSE LET cursor == DollarTagEnd(s, start + 1)
         IN  IF cursor = -1 THEN <<>> ELSE Slice(s, start, cursor + 1)

\* content.replace(/--.*$/gm, ''): from each `--` up to the end of its line.
RECURSIVE WithoutLineComments(_, _)
WithoutLineComments(s, inComment) ==
    IF s = <<>> THEN <<>>
    ELSE IF inComment
         THEN IF Head(s) = "\n"
              THEN <<"\n">> \o WithoutLineComments(Tail(s), FALSE)
              ELSE WithoutLineComments(Tail(s), TRUE)
    ELSE IF Len(s) >= 2 /\ s[1] = "-" /\ s[2] = "-"
         THEN WithoutLineComments(Tail(Tail(s)), TRUE)
    ELSE <<Head(s)>> \o WithoutLineComments(Tail(s), FALSE)

\* The places where a `*/` ends a comment opened at the head of s: /\/\*[\s\S]*?\*\//
BlockCommentClosers(s) ==
    {k \in 3..(Len(s) - 1) : s[k] = "*" /\ s[k + 1] = "/"}

Min(S) == CHOOSE x \in S : \A y \in S : x <= y

\* .replace(/\/\*[\s\S]*?\*\//g, ''): from each `/*` to the first `*/` after
\* it; a `/*` with no `*/` after it stays.
RECURSIVE WithoutBlockComments(_)
WithoutBlockComments(s) ==
    IF s = <<>> THEN <<>>
    ELSE IF Len(s) >= 2 /\ s[1] = "/" /\ s[2] = "*" /\ BlockCommentClosers(s) # {}
         THEN WithoutBlockComments(
                  SubSeq(s, Min(BlockCommentClosers(s)) + 2, Len(s)))
    ELSE <<Head(s)>> \o WithoutBlockComments(Tail(s))

hasExecutableSql(content) ==
    LET withoutLineComments == WithoutLineComments(content, FALSE)
        withoutBlockComments == WithoutBlockComments(withoutLineComments)
    IN  \E k \in DOMAIN withoutBlockComments :
            withoutBlockComments[k] \notin Whitespace \cup {";"}

\* chunk.match(/^\s*/)[0].length and chunk.match(/\s*$/)[0].length
RECURSIVE LeadingWhitespace(_)
LeadingWhitespace(chunk) ==
    IF chunk # <<>> /\ Head(chunk) \in Whitespace
    THEN 1 + LeadingWhitespace(Tail(chunk))
    ELSE 0

RECURSIVE TrailingWhitespace(_)
TrailingWhitespace(chunk) ==
    IF chunk # <<>> /\ chunk[Len(chunk)] \in Whitespace
    THEN 1 + TrailingWhitespace(SubSeq(chunk, 1, Len(chunk) - 1))
    ELSE 0

\* pushStatement: the statements list after the call.
pushStatement(s, start, end, list) ==
    LET chunk == Slice(s, start, end)
        contentStart == start + LeadingWhitespace(chunk)
        contentEnd == end - TrailingWhitespace(chunk)
        content == Slice(s, contentStart, contentEnd)
    IN  IF contentEnd <= contentStart THEN list
        ELSE IF ~hasExecutableSql(content) THEN list
        ELSE Append(list, [offset |-> contentStart, content |-> content])

\* The call of pushStatement, with what it was called on.
Push(end) ==
    /\ statements' = pushStatement(source, statementStart, end, statements)
    /\ segments' = Append(segments,
                          [start |-> statementStart, end |-> end,
                           code |-> sawCode,
                           pushed |-> Len(statements') > Len(statements)])

\* The statement after a terminator at offset k starts here.
NextStatementStartSkipping(k) == k + 2

NextStatementStart(k) == k + 1

\* One undoubled quote ends a literal; the pair of a doubled one is skipped.
ClosesQuoteAtAny(char, next, quote) == char = quote

ClosesQuote(char, next, quote) == char = quote /\ next # quote

\* The closing delimiter of the open dollar-quoted block is at offset k.
ClosesDollarAtAny(s, tag, k) == At(s, k) = "$"

ClosesDollar(s, tag, k) == StartsWith(s, tag, k)

\* A line comment opens at `--`.
OpensLineCommentNever(char, next) == FALSE

OpensLineComment(char, next) == char = "-" /\ next = "-"

\* Lines 57-66: the depth after the characters at the index, inside a block
\* comment.
BlockCommentDepthFlat(depth, char, next) ==
    IF char = "*" /\ next = "/" THEN 0 ELSE depth

BlockCommentDepthAfter(depth, char, next) ==
    IF char = "/" /\ next = "*" THEN depth + 1
    ELSE IF char = "*" /\ next = "/" THEN depth - 1
    ELSE depth

\* Line 131: the character that ends a statement.
TerminatesAtLineEnd(char) == char \in {";", "\n"}

Terminates(char) == char = ";"

\* One turn of the loop, lines 45-135. `code` says whether the characters
\* consumed are statement text, i.e. neither comment, terminator nor space.
ScanChar ==
    /\ pc = "scan"
    /\ i < Len(source)
    /\ UNCHANGED <<besidesScan, source, pc>>
    /\ LET char == At(source, i)
           next == At(source, i + 1)
           tag == readDollarTag(source, i)
           text == char \notin Whitespace \cup {";"}
       IN  IF inLineComment THEN
               /\ inLineComment' = (char # "\n")
               /\ i' = i + 1
               /\ UNCHANGED <<statementStart, inSingleQuote, inDoubleQuote,
                              blockCommentDepth, dollarTag, statements,
                              segments, sawCode>>
           ELSE IF blockCommentDepth > 0 THEN
               /\ blockCommentDepth'
                     = BlockCommentDepthAfter(blockCommentDepth, char, next)
               /\ IF (char = "/" /\ next = "*") \/ (char = "*" /\ next = "/")
                  THEN i' = i + 2
                  ELSE i' = i + 1
               /\ UNCHANGED <<statementStart, inSingleQuote, inDoubleQuote,
                              inLineComment, dollarTag, statements, segments,
                              sawCode>>
           ELSE IF dollarTag # <<>> THEN
               /\ IF ClosesDollar(source, dollarTag, i)
                  THEN dollarTag' = <<>> /\ i' = i + Len(dollarTag)
                  ELSE dollarTag' = dollarTag /\ i' = i + 1
               /\ sawCode' = (sawCode \/ text)
               /\ UNCHANGED <<statementStart, inSingleQuote, inDoubleQuote,
                              inLineComment, blockCommentDepth, statements,
                              segments>>
           ELSE IF inSingleQuote THEN
               /\ IF char = "'" /\ ~ClosesQuote(char, next, "'")
                  THEN inSingleQuote' = TRUE /\ i' = i + 2
                  ELSE inSingleQuote' = ~ClosesQuote(char, next, "'") /\ i' = i + 1
               /\ sawCode' = (sawCode \/ text)
               /\ UNCHANGED <<statementStart, inDoubleQuote, inLineComment,
                              blockCommentDepth, dollarTag, statements,
                              segments>>
           ELSE IF inDoubleQuote THEN
               /\ IF char = "\"" /\ ~ClosesQuote(char, next, "\"")
                  THEN inDoubleQuote' = TRUE /\ i' = i + 2
                  ELSE inDoubleQuote' = ~ClosesQuote(char, next, "\"") /\ i' = i + 1
               /\ sawCode' = (sawCode \/ text)
               /\ UNCHANGED <<statementStart, inSingleQuote, inLineComment,
                              blockCommentDepth, dollarTag, statements,
                              segments>>
           ELSE IF OpensLineComment(char, next) THEN
               /\ inLineComment' = TRUE
               /\ i' = i + 2
               /\ UNCHANGED <<statementStart, inSingleQuote, inDoubleQuote,
                              blockCommentDepth, dollarTag, statements,
                              segments, sawCode>>
           ELSE IF char = "/" /\ next = "*" THEN
               /\ blockCommentDepth' = 1
               /\ i' = i + 2
               /\ UNCHANGED <<statementStart, inSingleQuote, inDoubleQuote,
                              inLineComment, dollarTag, statements, segments,
                              sawCode>>
           ELSE IF char = "'" THEN
               /\ inSingleQuote' = TRUE
               /\ i' = i + 1
               /\ sawCode' = TRUE
               /\ UNCHANGED <<statementStart, inDoubleQuote, inLineComment,
                              blockCommentDepth, dollarTag, statements,
                              segments>>
           ELSE IF char = "\"" THEN
               /\ inDoubleQuote' = TRUE
               /\ i' = i + 1
               /\ sawCode' = TRUE
               /\ UNCHANGED <<statementStart, inSingleQuote, inLineComment,
                              blockCommentDepth, dollarTag, statements,
                              segments>>
           ELSE IF char = "$" /\ tag # <<>> THEN
               /\ dollarTag' = tag
               /\ i' = i + Len(tag)
               /\ sawCode' = TRUE
               /\ UNCHANGED <<statementStart, inSingleQuote, inDoubleQuote,
                              inLineComment, blockCommentDepth, statements,
                              segments>>
           ELSE IF Terminates(char) THEN
               /\ Push(i + 1)
               /\ statementStart' = NextStatementStart(i)
               /\ i' = i + 1
               /\ sawCode' = FALSE
               /\ UNCHANGED <<inSingleQuote, inDoubleQuote, inLineComment,
                              blockCommentDepth, dollarTag>>
           ELSE
               /\ i' = i + 1
               /\ sawCode' = (sawCode \/ text)
               /\ UNCHANGED <<statementStart, inSingleQuote, inDoubleQuote,
                              inLineComment, blockCommentDepth, dollarTag,
                              statements, segments>>

\* The loop is over: the last pushStatement (line 137) and the return.
FlushUnlessOpen ==
    /\ pc = "scan"
    /\ i >= Len(source)
    /\ IF inSingleQuote \/ inDoubleQuote \/ inLineComment
             \/ blockCommentDepth > 0 \/ dollarTag # <<>>
       THEN UNCHANGED <<statements, segments>>
       ELSE Push(Len(source))
    /\ pc' = "done"
    /\ UNCHANGED <<besidesScan, source, i, statementStart, inSingleQuote,
                   inDoubleQuote, inLineComment, blockCommentDepth, dollarTag,
                   sawCode>>

Flush ==
    /\ pc = "scan"
    /\ i >= Len(source)
    /\ Push(Len(source))
    /\ pc' = "done"
    /\ UNCHANGED <<besidesScan, source, i, statementStart, inSingleQuote,
                   inDoubleQuote, inLineComment, blockCommentDepth, dollarTag,
                   sawCode>>

\* The texts scanned: every text of up to MaxLen characters over Alphabet,
\* every text of up to MaxBody characters inside each frame, and the
\* examples of the specification.
Alphabet == {"a", ";", " ", "\n", "-", "/", "*", "'", "\"", "$"}
Texts(n) == UNION {[1..k -> Alphabet] : k \in 0..n}
Frames ==
    {<<<<"a", ";", "-", "-">>, <<"\n", "a", ";">>>>,
     <<<<"a", "'", "'", "'">>, <<"'", ";">>>>,
     <<<<"a", "\"", "\"", "\"">>, <<"\"", ";">>>>,
     <<<<"$", "$">>, <<"$", "$", ";">>>>,
     <<<<"$", "a", "$">>, <<"$", "a", "$", ";">>>>,
     <<<<"/", "*">>, <<"*", "/", "a", ";">>>>,
     <<<<"a", ";", "/", "*", "/", "*">>, <<"*", "/", "*", "/", "a", ";">>>>}
Select1 == <<"S", "E", "L", "E", "C", "T", " ", "1", ";">>
Select2 == <<"S", "E", "L", "E", "C", "T", " ", "2", ";">>
CommentAB == <<"-", "-", " ", "a", ";", "b", "\n">>
LineCommentExample == Select1 \o <<" ">> \o CommentAB \o Select2
QuoteExample ==
    <<"S", "E", "L", "E", "C", "T", " ", "'", "a", ";", "b", "'", ";">>
DollarExample ==
    <<"D", "O", " ", "$", "$", " ", "B", "E", "G", "I", "N", " ", "S", "E",
      "L", "E", "C", "T", " ", "1", ";", " ", "E", "N", "D", " ", "$", "$",
      ";">>
Sources ==
    Texts(MaxLen)
        \cup {f[1] \o body \o f[2] : f \in Frames, body \in Texts(MaxBody)}
        \cup {LineCommentExample, QuoteExample, DollarExample}

\* extractSqlStatements is called on a text: lines 35-43.
ScanInit ==
    /\ IdleBesides("scan")
    /\ source \in Sources
    /\ i = 0
    /\ statementStart = 0
    /\ inSingleQuote = FALSE
    /\ inDoubleQuote = FALSE
    /\ inLineComment = FALSE
    /\ blockCommentDepth = 0
    /\ dollarTag = <<>>
    /\ statements = <<>>
    /\ segments = <<>>
    /\ sawCode = FALSE
    /\ pc = "scan"

ScanNext ==
    \/ ScanChar
    \/ Flush

ScanSpec == ScanInit /\ [][ScanNext]_<<scanVars, besidesScan>>

\* ------------------------------------------- claims on the statement scanner
\* The chunks pushStatement was called on, in the order of the calls.
RECURSIVE RawText(_)
RawText(segs) ==
    IF segs = <<>> THEN <<>>
    ELSE Slice(source, Head(segs).start, Head(segs).end) \o RawText(Tail(segs))

\* C13: the raw segments the scanner cuts, before trimming, follow one
\* another in ascending order without gap or overlap, from offset 0 to the end
\* of the text: put end to end they are the text, and every character of it is
\* in exactly one of them.
C13_RawSegmentsPartition ==
    /\ \A k \in DOMAIN segments :
          /\ segments[k].start <= segments[k].end
          /\ segments[k].start = IF k = 1 THEN 0 ELSE segments[k - 1].end
    /\ pc = "scan" =>
          statementStart = IF segments = <<>> THEN 0 ELSE Last(segments).end
    /\ pc = "done" =>
          /\ segments # <<>>
          /\ Last(segments).end = Len(source)
          /\ RawText(segments) = source
          /\ \A p \in 0..(Len(source) - 1) :
                Cardinality({k \in DOMAIN segments :
                    segments[k].start <= p /\ p < segments[k].end}) = 1

C13_Witness ==
    /\ pc = "done"
    /\ Len(segments) = 3
    /\ segments[1].pushed
    /\ ~segments[2].pushed
    /\ segments[3].end > segments[3].start

Contents == [k \in DOMAIN statements |-> statements[k].content]

\* C14 as stated: a terminator inside a `--` line comment never splits a
\* statement, and "SELECT 1; -- a;b\nSELECT 2;" yields exactly the two spans
\* "SELECT 1;" and "SELECT 2;".
C14_ExampleSpansWithoutComment ==
    (pc = "done" /\ source = LineCommentExample) =>
        Contents = <<Select1, Select2>>

\* C14 amended: inside a line comment no character, a `;` included, makes the
\* scanner cut a segment, and "SELECT 1; -- a;b\nSELECT 2;" yields exactly two
\* spans: "SELECT 1;" and "-- a;b\nSELECT 2;", the second keeping the comment
\* that precedes its statement.
C14_CommentNeverSplits ==
    [][/\ (inLineComment /\ i < Len(source)) =>
             /\ segments' = segments
             /\ statementStart' = statementStart
             /\ inLineComment' = (At(source, i) # "\n")
       /\ (pc' = "done" /\ source = LineCommentExample) =>
             Contents' = <<Select1, CommentAB \o Select2>>]_scanVars

C14_Witness ==
    /\ pc = "done"
    /\ source = LineCommentExample
    /\ Len(statements) = 2
    /\ segments[2].start = Len(Select1)

\* What the scanner does at the character at offset i of a literal opened by
\* quote: it stays in the literal unless the character is that quote and the
\* next one is not, and it steps over both quotes of a doubled one.
InLiteralStep(quote, inQuote) ==
    LET char == At(source, i)
        next == At(source, i + 1)
    IN  /\ segments' = segments
        /\ statementStart' = statementStart
        /\ statements' = statements
        /\ inQuote = ~(char = quote /\ next # quote)
        /\ (char = quote /\ next = quote) => i' = i + 2
        /\ ~inLineComment' /\ blockCommentDepth' = 0 /\ dollarTag' = <<>>

\* C15: inside a single-quoted or double-quoted literal no `;` ends a
\* statement, a doubled quote of the literal's type does not close it, and
\* the literal ends only at an undoubled quote of its type; "SELECT 'a;b';" is
\* one span.
C15_QuotedLiteral ==
    [][/\ (inSingleQuote /\ i < Len(source)) =>
             InLiteralStep("'", inSingleQuote') /\ ~inDoubleQuote'
       /\ (inDoubleQuote /\ i < Len(source)) =>
             InLiteralStep("\"", inDoubleQuote') /\ ~inSingleQuote'
       /\ (pc' = "done" /\ source = QuoteExample) =>
             Contents' = <<QuoteExample>>]_scanVars

C15_Witness ==
    /\ pc = "done"
    /\ source = <<"a", "'", "'", "'", ";", "'", ";">>
    /\ Contents = <<source>>
    /\ Len(segments) = 2
    /\ ~inSingleQuote

\* C16: inside a dollar-quoted block, whose tag may be empty, no `;` ends a
\* statement and no quote or comment opener opens a state; the block ends at
\* the first place after its opener where exactly its own delimiter stands,
\* and nowhere else. The delimiter is `$`, tag characters, `$`.
\* "DO $$ BEGIN SELECT 1; END $$;" is one span.
C16_DollarQuotedBlock ==
    [][/\ (dollarTag # <<>> /\ i < Len(source)) =>
             /\ segments' = segments
             /\ statementStart' = statementStart
             /\ statements' = statements
             /\ ~inSingleQuote' /\ ~inDoubleQuote'
             /\ ~inLineComment' /\ blockCommentDepth' = 0
             /\ IF /\ i + Len(dollarTag) <= Len(source)
                   /\ Slice(source, i, i + Len(dollarTag)) = dollarTag
                THEN dollarTag' = <<>> /\ i' = i + Len(dollarTag)
                ELSE dollarTag' = dollarTag /\ i' = i + 1
       /\ (dollarTag = <<>> /\ dollarTag' # <<>>) =>
             /\ dollarTag' = Slice(source, i, i')
             /\ Len(dollarTag') >= 2
             /\ Head(dollarTag') = "$" /\ Last(dollarTag') = "$"
             /\ \A k \in 2..(Len(dollarTag') - 1) : dollarTag'[k] \in TagChars
       /\ (pc' = "done" /\ source = DollarExample) =>
             Contents' = <<DollarExample>>]_scanVars

C16_Witness ==
    /\ pc = "done"
    /\ source = <<"$", "a", "$", "$", ";", "$", "a", "$", ";">>
    /\ Contents = <<source>>
    /\ Len(segments) = 2
    /\ dollarTag = <<>>

\* C17: the scanner emits no span for a segment that is only whitespace or
\* comments: a segment in which the scanner met, outside the line comments
\* and the (nesting, closed at the latest by the end of the text) block
\* comments it delimits, nothing but terminators and whitespace is discarded.
C17_NoCommentOnlySpan ==
    \A k \in DOMAIN segments : segments[k].pushed => segments[k].code

\* The text between the offsets, without the whitespace around it.
Trimmed(start, end) ==
    LET chunk == Slice(source, start, end)
    IN  Slice(source, start + LeadingWhitespace(chunk),
              end - TrailingWhitespace(chunk))

\* C18: on every text the scan is one pass from left to right that ends:
\* every turn of the loop moves the index forward and never past the end of
\* the text, so there are at most as many turns as characters; and at the end
\* of the text, whatever quote, comment or dollar-quoted block is still open,
\* the scanner stops after flushing what follows the last terminator as the
\* last segment; when that segment holds statement text, its trimmed text is
\* the last span.
C18_OnePassThenFlush ==
    [][/\ (pc = "scan" /\ i < Len(source)) =>
             i' > i /\ i' <= Len(source) /\ pc' = "scan"
       /\ (pc = "scan" /\ i >= Len(source)) =>
             /\ i = Len(source)
             /\ pc' = "done"
             /\ Len(segments') = Len(segments) + 1
             /\ Last(segments').start = statementStart
             /\ Last(segments').end = Len(source)
             /\ sawCode =>
                   /\ Last(segments').pushed
                   /\ Last(statements') =
                         [offset |-> statementStart + LeadingWhitespace(
                              Slice(source, statementStart, Len(source))),
                          content |-> Trimmed(statementStart, Len(source))]]_scanVars

C18_Witness ==
    /\ pc = "done"
    /\ source = <<"a", ";", "'", ";">>
    /\ inSingleQuote
    /\ Contents = <<<<"a", ";">>, <<"'", ";">>>>

\* ------------------------------------------------ embedded SQL extraction
\* src/src/sql/inlineSql.ts. looksLikeSql first: its three regular
\* expressions, computed on sequences of characters.
UpperCase ==
    <<"A", "B", "C", "D", "E", "F", "G", "H", "I", "J", "K", "L", "M", "N",
      "O", "P", "Q", "R", "S", "T", "U", "V", "W", "X", "Y", "Z">>
LowerCase ==
    <<"a", "b", "c", "d", "e", "f", "g", "h", "i", "j", "k", "l", "m", "n",
      "o", "p", "q", "r", "s", "t", "u", "v", "w", "x", "y", "z">>

\* The /i flag: letters compare without case.
ToLower(c) ==
    IF \E k \in DOMAIN UpperCase : UpperCase[k] = c
    THEN LowerCase[CHOOSE k \in DOMAIN UpperCase : UpperCase[k] = c]
    ELSE c

\* SQL_START_REGEX and SQL_CONTEXT_REGEX (src/src/constants/sql.ts, lines 1-2)
SQL_START_WORDS ==
    {<<"s", "e", "l", "e", "c", "t">>,
     <<"i", "n", "s", "e", "r", "t">>,
     <<"u", "p", "d", "a", "t", "e">>,
     <<"d", "e", "l", "e", "t", "e">>,
     <<"w", "i", "t", "h">>,
     <<"c", "r", "e", "a", "t", "e">>,
     <<"a", "l", "t", "e", "r">>,
     <<"d", "r", "o", "p">>}
SQL_CONTEXT_WORDS ==
    {<<"f", "r", "o", "m">>,
     <<"i", "n", "t", "o">>,
     <<"v", "a", "l", "u", "e", "s">>,
     <<"s", "e", "t">>,
     <<"w", "h", "e", "r", "e">>,
     <<"j", "o", "i", "n">>,
     <<"t", "a", "b", "l", "e">>,
     <<"r", "e", "t", "u", "r", "n", "i", "n", "g">>}
SelectWord == <<"s", "e", "l", "e", "c", "t">>
FromWord == <<"f", "r", "o", "m">>

\* text.replace(/\s+/g, ' '): every run of whitespace becomes one space.
RECURSIVE CollapseWhitespace(_)
CollapseWhitespace(text) ==
    IF text = <<>> THEN <<>>
    ELSE IF Head(text) \in Whitespace
         THEN IF Len(text) >= 2 /\ text[2] \in Whitespace
              THEN CollapseWhitespace(Tail(text))
              ELSE <<" ">> \o CollapseWhitespace(Tail(text))
    ELSE <<Head(text)>> \o CollapseWhitespace(Tail(text))

\* .trim()
Trim(text) ==
    SubSeq(text, 1 + LeadingWhitespace(text),
           Len(text) - TrailingWhitespace(text))

\* The places of the whole words of text: between two \b, word characters
\* only. A word is <<first, last>>, 1-based.
RECURSIVE WordEnd(_, _)
WordEnd(text, k) ==
    IF k < Len(text) /\ text[k + 1] \in TagChars THEN WordEnd(text, k + 1)
    ELSE k

WordsOf(text) ==
    {<<k, WordEnd(text, k)>> :
        k \in {j \in DOMAIN text :
                  /\ text[j] \in TagChars
                  /\ (j = 1 \/ text[j - 1] \notin TagChars)}}

WordAt(text, w) == [k \in 1..(w[2] - w[1] + 1) |-> ToLower(text[w[1] + k - 1])]

\* regex.test(text) for /\b(w1|w2|...)\b/i: the alternatives hold word
\* characters only, so what matches between two \b is one whole word.
TestWords(text, words) == \E w \in WordsOf(text) : WordAt(text, w) \in words

\* /\bselect\b[\s\S]+\bfrom\b/i
TestSelectFrom(text) ==
    \E s, f \in WordsOf(text) :
        /\ WordAt(text, s) = SelectWord
        /\ WordAt(text, f) = FromWord
        /\ f[1] > s[2] + 1

looksLikeSqlUnnormalized(text) ==
    /\ Len(text) >= 10
    /\ TestWords(text, SQL_START_WORDS)
    /\ TestWords(text, SQL_CONTEXT_WORDS) \/ TestSelectFrom(text)

looksLikeSql(text) ==
    LET normalized == Trim(CollapseWhitespace(text))
    IN  /\ Len(normalized) >= 10
        /\ TestWords(normalized, SQL_START_WORDS)
        /\ TestWords(normalized, SQL_CONTEXT_WORDS) \/ TestSelectFrom(normalized)

\* The syntax trees. A node is what the code reads of a tree-sitter
\* SyntaxNode: type, startIndex, endIndex, its children in order, whether it
\* is named, and the field of its parent it fills. Leaves carry their text.
Leaf(type, named, field, text, at) ==
    [type |-> type, isNamed |-> named, field |-> field, startIndex |-> at,
     endIndex |-> at + Len(text), text |-> text, children |-> <<>>]
Inner(type, field, kids) ==
    [type |-> type, isNamed |-> TRUE, field |-> field,
     startIndex |-> kids[1].startIndex, endIndex |-> kids[Len(kids)].endIndex,
     text |-> <<>>, children |-> kids]

\* "fragment": an empty literal has no string_content child.
String(fragment, field, at) ==
    Inner("string", field,
          <<Leaf("string_start", TRUE, "", <<"\"">>, at)>>
              \o (IF fragment = <<>> THEN <<>>
                  ELSE <<Leaf("string_content", TRUE, "", fragment, at + 1)>>)
              \o <<Leaf("string_end", TRUE, "", <<"\"">>, at + 1 + Len(fragment))>>)

\* "f""g": two literals side by side
ConcatenatedString(f, g, field, at) ==
    LET first == String(f, "", at)
    IN  Inner("concatenated_string", field,
              <<first, String(g, "", first.endIndex)>>)

Identifier(name, field, at) == Leaf("identifier", TRUE, field, <<name>>, at)

\* The arguments of a call, a comma between two of them.
RECURSIVE WithCommas(_)
WithCommas(args) ==
    IF Len(args) <= 1 THEN args
    ELSE <<Head(args), Leaf(",", FALSE, "", <<",">>, Head(args).endIndex)>>
             \o WithCommas(Tail(args))

\* x=<right>
Assignment(right) ==
    Inner("expression_statement", "",
          <<Inner("assignment", "",
                  <<Identifier("x", "left", right.startIndex - 2),
                    Leaf("=", FALSE, "", <<"=">>, right.startIndex - 1),
                    right>>)>>)

\* name(args)
CallNamed(name, field, args, at) ==
    LET open == Leaf("(", FALSE, "", <<"(">>, at + 1)
        close == Leaf(")", FALSE, "", <<")">>,
                      IF args = <<>> THEN at + 2 ELSE args[Len(args)].endIndex)
    IN  Inner("call", field,
              <<Identifier(name, "function", at),
                Inner("argument_list", "arguments",
                      <<open>> \o WithCommas(args) \o <<close>>)>>)

\* f(args)
CallOf(field, args, at) == CallNamed("f", field, args, at)

SelectA == <<"S", "E", "L", "E", "C", "T", " ", "a">>
FromT == <<"F", "R", "O", "M", " ", "t">>
SelectAFromT == <<"S", "E", "L", "E", "C", "T", " ", "a", " ", "F", "R", "O", "M", " ", "t">>
HelloWorld == <<"h", "e", "l", "l", "o", " ", "w", "o", "r", "l", "d">>
Fragments == {SelectA, FromT, SelectAFromT, HelloWorld}
JoinedFragments == {SelectA, FromT, HelloWorld}
ArgumentFragments == {SelectAFromT, HelloWorld}

\* The statements a text is made of, the first character at offset at: with
\* f and g among the fragments,
\*   x="f"   x="f""g"   f("f")   x=f("f")   g(y,"f")   f()   x=y   x=f("f","g")
Statements(at) ==
    {Assignment(String(f, "right", at + 2)) : f \in Fragments}
        \cup {Assignment(ConcatenatedString(f, g, "right", at + 2)) :
                 f \in JoinedFragments, g \in JoinedFragments}
        \cup {Inner("expression_statement", "",
                    <<CallOf("", <<String(f, "", at + 2)>>, at)>>) :
                 f \in ArgumentFragments}
        \cup {Assignment(CallOf("right", <<String(f, "", at + 4)>>, at + 2)) :
                 f \in ArgumentFragments}
        \cup {Inner("expression_statement", "",
                    <<CallNamed("g", "", <<Identifier("y", "", at + 2),
                                           String(f, "", at + 4)>>, at)>>) :
                 f \in ArgumentFragments}
        \cup {Inner("expression_statement", "", <<CallOf("", <<>>, at)>>),
              Assignment(Identifier("y", "right", at + 2))}
        \cup {Assignment(CallOf("right",
                                <<String(f, "", at + 4),
                                  String(FromT, "", at + 7 + Len(f))>>,
                                at + 2)) :
                 f \in ArgumentFragments}

\* The texts of up to n statements, one per line, from offset at on.
RECURSIVE StatementLists(_, _)
StatementLists(at, n) ==
    {<<>>} \cup
        IF n = 0 THEN {}
        ELSE UNION {{<<s>> \o rest : rest \in StatementLists(s.endIndex + 1, n - 1)} :
                       s \in Statements(at)}

Module(kids) ==
    IF kids = <<>> THEN Leaf("module", TRUE, "", <<>>, 0)
    ELSE [Inner("module", "", kids) EXCEPT !.startIndex = 0]

\* node.text: what the parser read the node from, a newline in every gap
\* between two children.
RECURSIVE TextOf(_)
RECURSIVE TextOfAll(_, _)
TextOf(node) ==
    IF node.children = <<>> THEN node.text
    ELSE TextOfAll(node.children, node.startIndex)
TextOfAll(kids, at) ==
    IF kids = <<>> THEN <<>>
    ELSE [k \in 1..(Head(kids).startIndex - at) |-> "\n"]
             \o TextOf(Head(kids)) \o TextOfAll(Tail(kids), Head(kids).endIndex)

\* node.childForFieldName(name), NullNode for null
childForFieldName(node, name) ==
    IF \E k \in DOMAIN node.children : node.children[k].field = name
    THEN node.children[CHOOSE k \in DOMAIN node.children :
             /\ node.children[k].field = name
             /\ \A j \in 1..(k - 1) : node.children[j].field # name]
    ELSE NullNode

\* getFirstCallArgument: argumentsNode.namedChild(0)
getFirstCallArgument(callNode) ==
    LET argumentsNode == childForFieldName(callNode, "arguments")
        named == SelectSeq(argumentsNode.children, LAMBDA c : c.isNamed)
    IN  IF argumentsNode = NullNode \/ named = <<>> THEN NullNode
        ELSE Head(named)

\* results.sort((a, b) => a.startOffset - b.startOffset), a stable sort
RECURSIVE InsertByStartOffset(_, _)
InsertByStartOffset(sorted, part) ==
    IF sorted = <<>> THEN <<part>>
    ELSE IF sorted[Len(sorted)].startOffset <= part.startOffset
         THEN Append(sorted, part)
    ELSE Append(InsertByStartOffset(SubSeq(sorted, 1, Len(sorted) - 1), part),
                sorted[Len(sorted)])

RECURSIVE SortByStartOffset(_)
SortByStartOffset(results) ==
    IF results = <<>> THEN <<>>
    ELSE InsertByStartOffset(
             SortByStartOffset(SubSeq(results, 1, Len(results) - 1)),
             results[Len(results)])

\* The loop of collectStringContentNodes, lines 162-182: the last node pushed
\* is visited first, a string_content is a part and is not entered.
RECURSIVE CollectLoop(_, _, _)
CollectLoop(src, todo, results) ==
    IF todo = <<>> THEN results
    ELSE LET current == todo[Len(todo)]
             rest == SubSeq(todo, 1, Len(todo) - 1)
         IN  IF current.type = "string_content"
             THEN CollectLoop(src, rest,
                      Append(results,
                             [startOffset |-> current.startIndex,
                              text |-> Slice(src, current.startIndex,
                                             current.endIndex)]))
             ELSE CollectLoop(src, rest \o current.children, results)

collectStringContentNodesUnsorted(node, src) == CollectLoop(src, <<node>>, <<>>)

collectStringContentNodes(node, src) ==
    SortByStartOffset(CollectLoop(src, <<node>>, <<>>))

\* parts.map((part) => part.text).join('\n')
RECURSIVE JoinTexts(_)
JoinTexts(parts) ==
    IF parts = <<>> THEN <<>>
    ELSE IF Len(parts) = 1 THEN parts[1].text
    ELSE parts[1].text \o <<"\n">> \o JoinTexts(Tail(parts))

\* The offset left out of the key.
KeyOfLength(parts, content) == <<0, Len(content)>>

\* `${first.startOffset}:${content.length}`: the two numbers
KeyOf(parts, content) == <<parts[1].startOffset, Len(content)>>

\* addSqlGroupFromNode: the groups and the keys seen after the call.
addSqlGroupFromNode(node, src, gs, sn) ==
    LET parts == collectStringContentNodes(node, src)
        content == JoinTexts(parts)
        same == [groups |-> gs, seen |-> sn]
    IN  IF Len(parts) = 0 THEN same
        ELSE IF ~looksLikeSql(content) THEN same
        ELSE IF KeyOf(parts, content) \in sn THEN same
        ELSE [groups |-> Append(gs, [parts |-> parts, content |-> content]),
              seen |-> sn \cup {KeyOf(parts, content)}]

\* sqlPrefix.split('\n').pop(): what follows the last newline
RECURSIVE LastLine(_)
LastLine(text) ==
    IF \E k \in DOMAIN text : text[k] = "\n"
    THEN LastLine(Tail(text))
    ELSE text

\* The two loops of getPythonSqlCompletionContext, lines 94-114.
RECURSIVE ContextInParts(_, _, _, _)
ContextInParts(group, parts, prefix, offset) ==
    IF parts = <<>> THEN NoContext
    ELSE LET part == Head(parts)
             partStart == part.startOffset
             partEnd == part.startOffset + Len(part.text)
         IN  IF offset >= partStart /\ offset <= partEnd
             THEN [sqlText |-> group.content,
                   linePrefix |->
                       LastLine(prefix \o SubSeq(part.text, 1, offset - partStart)),
                   found |-> TRUE]
             ELSE ContextInParts(group, Tail(parts), prefix \o part.text, offset)

RECURSIVE ContextInGroups(_, _)
ContextInGroups(gs, offset) ==
    IF gs = <<>> THEN NoContext
    ELSE LET here == ContextInParts(Head(gs), Head(gs).parts, <<>>, offset)
         IN  IF here.found THEN here ELSE ContextInGroups(Tail(gs), offset)

\* Lines 40-42 and 86-88 with no parser, replaced by going on to parse.
NoParserParses ==
    /\ xpc = "called"
    /\ ~parser
    /\ stack' = <<root>>
    /\ xpc' = "walk"
    /\ UNCHANGED <<besidesExtract, parser, pythonSource, root, groups,
                   seen, context, visited, offered>>

\* Lines 40-42 and 86-88: with no parser both functions return at once,
\* the one an empty list, the other undefined.
NoParser ==
    /\ xpc = "called"
    /\ ~parser
    /\ groups' = <<>>
    /\ context' = NoContext
    /\ xpc' = "done"
    /\ UNCHANGED <<besidesExtract, parser, pythonSource, root, stack,
                   seen, visited, offered>>

\* Lines 44-48: parser.parse(source), and the walk starts at the root.
Parse ==
    /\ xpc = "called"
    /\ parser
    /\ stack' = <<root>>
    /\ groups' = <<>>
    /\ seen' = {}
    /\ visited' = <<>>
    /\ offered' = <<>>
    /\ xpc' = "walk"
    /\ UNCHANGED <<besidesExtract, parser, pythonSource, root, context>>

\* Lines 70-75: every child of the node goes on the stack.
pushChildrenUnlessCall(rest, node) ==
    IF node.type = "call" THEN rest ELSE rest \o node.children

pushChildren(rest, node) == rest \o node.children

\* What tells a node of the tree from every other: its type and its extent.
Place(node) == <<node.type, node.startIndex, node.endIndex>>

\* One turn of the loop of extractSqlStringGroups, lines 50-76.
Visit ==
    /\ xpc = "walk"
    /\ stack # <<>>
    /\ LET node == stack[Len(stack)]
           right == childForFieldName(node, "right")
           firstArg == getFirstCallArgument(node)
           before == [groups |-> groups, seen |-> seen]
           assigned ==
               IF node.type \in {"assignment", "annotated_assignment"}
                      /\ right # NullNode
               THEN addSqlGroupFromNode(right, pythonSource, groups, seen)
               ELSE before
           called ==
               IF node.type = "call" /\ firstArg # NullNode
               THEN addSqlGroupFromNode(firstArg, pythonSource,
                                        assigned.groups, assigned.seen)
               ELSE assigned
       IN  /\ groups' = called.groups
           /\ seen' = called.seen
           /\ stack' = pushChildren(SubSeq(stack, 1, Len(stack) - 1), node)
           /\ visited' = Append(visited, Place(node))
           /\ offered' = offered
                  \o (IF node.type \in {"assignment", "annotated_assignment"}
                         /\ right # NullNode
                      THEN <<Place(right)>> ELSE <<>>)
                  \o (IF node.type = "call" /\ firstArg # NullNode
                      THEN <<Place(firstArg)>> ELSE <<>>)
    /\ UNCHANGED <<besidesExtract, parser, pythonSource, root, context,
                   xpc>>

\* Line 78: extractSqlStringGroups, called from outside, returns the groups.
ReturnGroups ==
    /\ xpc = "walk"
    /\ stack = <<>>
    /\ xpc' = "done"
    /\ UNCHANGED <<besidesExtract, parser, pythonSource, root, stack,
                   groups, seen, context, visited, offered>>

\* Lines 90-114: extractSqlStringGroups was called by
\* getPythonSqlCompletionContext, which looks in the groups for the part the
\* offset of the position is in.
ReturnContext(offset) ==
    /\ xpc = "walk"
    /\ stack = <<>>
    /\ context' = ContextInGroups(groups, offset)
    /\ xpc' = "done"
    /\ UNCHANGED <<besidesExtract, parser, pythonSource, root, stack,
                   groups, seen, visited, offered>>

\* extractSqlStringGroups or getPythonSqlCompletionContext is called, on a
\* text and with the parser createPythonParser returned.
ExtractInit ==
    /\ root \in {Module(list) : list \in StatementLists(0, MaxStatements)}
    /\ pythonSource = TextOf(root)
    /\ parser \in BOOLEAN
    /\ IdleBesides("extract")
    /\ stack = <<>>
    /\ groups = <<>>
    /\ seen = {}
    /\ context = NoContext
    /\ visited = <<>>
    /\ offered = <<>>
    /\ xpc = "called"

ExtractNext ==
    \/ NoParser
    \/ Parse
    \/ Visit
    \/ ReturnGroups
    \/ \E offset \in 0..Len(pythonSource) : ReturnContext(offset)

ExtractSpec == ExtractInit /\ [][ExtractNext]_<<extractVars, besidesExtract>>

\* ----------------------------------------------- claims on the extraction
\* C19: with no parser (createPythonParser returned undefined)
\* extractSqlStringGroups returns an empty list and
\* getPythonSqlCompletionContext returns undefined, both at once: no tree is
\* walked, nothing is read of a missing parser, no error is raised.
C19_NoParserNoResult ==
    [][/\ (xpc = "called" /\ ~parser) =>
             /\ xpc' = "done"
             /\ groups' = <<>>
             /\ context' = NoContext
             /\ stack' = <<>>
       /\ (xpc' = "done" /\ context'.found) => parser]_extractVars

C19_Witness ==
    /\ xpc = "done"
    /\ ~parser
    /\ root.type = "module"
    /\ Len(root.children) = 1
    /\ looksLikeSql(Slice(pythonSource, 3, Len(pythonSource) - 1))
    /\ groups = <<>>
    /\ context = NoContext

\* Where the text of part k starts in the content of a group (1-based), the
\* parts being joined with one character between two of them.
RECURSIVE PlaceInContent(_, _)
PlaceInContent(parts, k) ==
    IF k = 1 THEN 1
    ELSE PlaceInContent(parts, k - 1) + Len(parts[k - 1].text) + 1

WellFormedGroup(group) ==
    LET parts == group.parts
        n == Len(parts)
    IN  /\ n >= 1
        /\ \A k \in 1..(n - 1) : parts[k].startOffset < parts[k + 1].startOffset
        /\ Len(group.content) =
               PlaceInContent(parts, n) + Len(parts[n].text) - 1
        /\ \A k \in 1..n :
              /\ SubSeq(group.content, PlaceInContent(parts, k),
                        PlaceInContent(parts, k) + Len(parts[k].text) - 1)
                     = parts[k].text
              /\ k > 1 => group.content[PlaceInContent(parts, k) - 1] = "\n"
        /\ looksLikeSql(group.content)

\* The assignments of the text whose right-hand side is two string literals
\* side by side, and the two fragments of each.
AdjacentFragments ==
    LET topLevel == {root.children[k].children[1] : k \in DOMAIN root.children}
        assigned == {a \in topLevel :
                        /\ a.type = "assignment"
                        /\ a.children[3].type = "concatenated_string"}
    IN  {<<a.children[3].children[1].children[2],
           a.children[3].children[2].children[2]>> : a \in assigned}

\* C20: every group extractSqlStringGroups returns has at least one part,
\* its parts in ascending order of startOffset, as content the texts of the
\* parts in that order with one newline between two of them, and a content
\* looksLikeSql accepts, and a group once in the list is not changed; and two
\* string fragments side by side on the right of one assignment, when their
\* joined text looks like SQL, make exactly one group, of these two parts.
AdjacentFragmentsGrouped ==
    \A pair \in AdjacentFragments :
        looksLikeSql(pair[1].text \o <<"\n">> \o pair[2].text) =>
            Cardinality({k \in DOMAIN groups :
                /\ groups[k].content =
                       pair[1].text \o <<"\n">> \o pair[2].text
                /\ groups[k].parts =
                       <<[startOffset |-> pair[1].startIndex,
                          text |-> pair[1].text],
                         [startOffset |-> pair[2].startIndex,
                          text |-> pair[2].text]>>}) = 1

C20_GroupsWellFormed ==
    /\ [][\A k \in DOMAIN groups' :
             IF k <= Len(groups) THEN groups'[k] = groups[k]
             ELSE WellFormedGroup(groups'[k])]_extractVars
    /\ []((xpc = "done" /\ parser) => AdjacentFragmentsGrouped)

C20_Witness ==
    /\ xpc = "done"
    /\ Len(groups) = 2
    /\ groups[2].content = SelectA \o <<"\n">> \o FromT
    /\ Len(groups[2].parts) = 2
    /\ Len(groups[1].parts) = 1

\* The node a turn of the walk hands to addSqlGroupFromNode, NullNode if none.
CandidateNode(node) ==
    IF node.type \in {"assignment", "annotated_assignment"}
    THEN childForFieldName(node, "right")
    ELSE IF node.type = "call" THEN getFirstCallArgument(node)
    ELSE NullNode

\* C21: within one pass no two retained groups have the same key
\* (parts[0].startOffset, content.length); and when a candidate that has parts
\* and looks like SQL is not retained, a group with the same parts and the same
\* content is already in the list.
C21_DedupOnlyIdentical ==
    /\ [](\A j, k \in DOMAIN groups :
             (groups[j].parts[1].startOffset = groups[k].parts[1].startOffset
                  /\ Len(groups[j].content) = Len(groups[k].content)) => j = k)
    /\ [][(xpc = "walk" /\ stack # <<>>
             /\ CandidateNode(stack[Len(stack)]) # NullNode) =>
             LET parts == collectStringContentNodes(
                              CandidateNode(stack[Len(stack)]), pythonSource)
                 content == JoinTexts(parts)
             IN  (parts # <<>> /\ looksLikeSql(content)) =>
                     IF groups' = groups
                     THEN \E k \in DOMAIN groups :
                              /\ groups[k].parts = parts
                              /\ groups[k].content = content
                     ELSE groups' = Append(groups, [parts |-> parts,
                                                    content |-> content])]_extractVars

C21_Witness ==
    /\ xpc = "done"
    /\ Len(root.children) = 2
    /\ root.children[1].children[1].type = "assignment"
    /\ root.children[1].children[1].children[3].type = "call"
    /\ Len(root.children[1].children[1].children[3].children[2].children) = 3
    /\ root.children[2].children[1].type = "assignment"
    /\ root.children[2].children[1].children[3].type = "call"
    /\ Len(root.children[2].children[1].children[3].children[2].children) = 5
    /\ Len(groups) = 3
    /\ groups[1].parts[1].startOffset = groups[2].parts[1].startOffset

\* C22: the list extractSqlStringGroups returns is in ascending order of the
\* offset of each group's first fragment.
C22_GroupsInSourceOrder ==
    xpc = "done" =>
        \A j, k \in DOMAIN groups :
            j < k => groups[j].parts[1].startOffset
                         <= groups[k].parts[1].startOffset

----------------------------------------------------------------------------
\* looksLikeSql applied to texts (src/src/sql/inlineSql.ts, lines 188-197).

\* The texts classified: up to MaxWords pieces in a row, each a keyword in
\* some case, a letter that lengthens a word, or a separator; and the two
\* texts of the specification's examples.
Pieces ==
    {<<"s", "e", "l", "e", "c", "t">>, <<"W", "i", "t", "h">>,
     <<"f", "r", "o", "m">>, <<"S", "E", "T">>, <<"s">>, <<"_">>,
     <<" ">>, <<"\n">>, <<"=">>, <<"x">>}

RECURSIVE Concatenation(_)
Concatenation(pieces) ==
    IF pieces = <<>> THEN <<>>
    ELSE Head(pieces) \o Concatenation(Tail(pieces))

XEquals5 == <<"x", " ", "=", " ", "5">>
SelectIdFromUsers ==
    <<"S", "E", "L", "E", "C", "T", " ", "i", "d", " ", "F", "R", "O", "M", " ", "u", "s", "e", "r", "s", " ", "W", "H", "E", "R", "E", " ", "i", "d", " ", "=", " ", "1">>

Candidates ==
    {Concatenation(p) : p \in UNION {[1..n -> Pieces] : n \in 0..MaxWords}}
        \cup {XEquals5, SelectIdFromUsers}

\* A caller hands a text to looksLikeSql.
ClassifyInit ==
    /\ IdleBesides("classify")
    /\ candidate \in Candidates
    /\ accepted = FALSE
    /\ cpc = "called"

\* looksLikeSql runs and returns: lines 188-197.
Classify ==
    /\ cpc = "called"
    /\ UNCHANGED besidesClassify
    /\ accepted' = looksLikeSql(candidate)
    /\ cpc' = "done"
    /\ UNCHANGED candidate

ClassifyNext == Classify

ClassifySpec == ClassifyInit /\ [][ClassifyNext]_<<classifyVars, besidesClassify>>

\* The length of a text once every run of whitespace is one space and the
\* ends are trimmed, counted on the text as given: the characters that are
\* not whitespace, and one for each run of whitespace that has such a
\* character on both sides.
NormalisedLength(text) ==
    Cardinality({k \in DOMAIN text : text[k] \notin Whitespace})
        + Cardinality({k \in DOMAIN text :
                          /\ text[k] \in Whitespace
                          /\ k > 1 /\ text[k - 1] \notin Whitespace
                          /\ \E j \in (k + 1)..Len(text) : text[j] \notin Whitespace})

\* The places where word stands in text as a whole word, whatever the case.
WholeWordPlaces(text, word) ==
    {k \in 1..(Len(text) - Len(word) + 1) :
        /\ \A j \in DOMAIN word : ToLower(text[k + j - 1]) = word[j]
        /\ k = 1 \/ text[k - 1] \notin TagChars
        /\ k + Len(word) > Len(text) \/ text[k + Len(word)] \notin TagChars}

HasWholeWord(text, words) == \E w \in words : WholeWordPlaces(text, w) # {}

\* select as a whole word, then at least one character, then from as a whole
\* word.
HasSelectThenFrom(text) ==
    \E s \in WholeWordPlaces(text, SelectWord), f \in WholeWordPlaces(text, FromWord) :
        f > s + Len(SelectWord)

\* C23: looksLikeSql answers true exactly for the texts whose normalised,
\* trimmed form has at least 10 characters, that hold a statement-opening
\* keyword as a whole word in any case, and that hold a context keyword as a
\* whole word or a select ... from pattern; "x = 5" is rejected and
\* "SELECT id FROM users WHERE id = 1" is accepted.
C23_LooksLikeSqlExactly ==
    cpc = "done" =>
        /\ accepted <=>
               /\ NormalisedLength(candidate) >= 10
               /\ HasWholeWord(candidate, SQL_START_WORDS)
               /\ HasWholeWord(candidate, SQL_CONTEXT_WORDS) \/ HasSelectThenFrom(candidate)
        /\ candidate = XEquals5 => ~accepted
        /\ candidate = SelectIdFromUsers => accepted

\* "select\n SET": eleven characters as given, ten once normalised.
C23_Witness ==
    /\ cpc = "done"
    /\ candidate = <<"s", "e", "l", "e", "c", "t", "\n", " ", "S", "E", "T">>
    /\ accepted

----------------------------------------------------------------------------
\* The backoff rule of getSchemaSnapshot, seen from the fields of the service.

\* C29: a non-forced, non-interactive call that finds no snapshot cached, no
\* refresh in flight and a refresh failure less than 30 seconds old returns
\* absent at once: no loadSchema run is started (so no connection string is
\* read and no query is sent) and schemaCache, schemaRefreshInFlight and
\* lastSchemaRefreshFailureAt keep their values. A service that has never
\* failed is not in this state: the same call starts a refresh.
C29_BackoffFrame ==
    /\ [](lastSchemaRefreshFailureAt = 0 => now - lastSchemaRefreshFailureAt >= BACKOFF_MS)
    /\ [][(/\ IsCallStep
           /\ ~Last(calls').force /\ ~Last(calls').interactive
           /\ schemaCache = Absent /\ schemaRefreshInFlight = 0)
             => IF lastSchemaRefreshFailureAt # 0
                   /\ now' - lastSchemaRefreshFailureAt < BACKOFF_MS
                THEN /\ Last(calls').pc = "returned"
                     /\ Last(calls').result = Absent
                     /\ Last(calls').refresh = 0
                     /\ refreshes' = RunningRefreshes
                     /\ schemaCache' = schemaCache
                     /\ schemaRefreshInFlight' = schemaRefreshInFlight
                     /\ lastSchemaRefreshFailureAt' = lastSchemaRefreshFailureAt
                ELSE /\ Last(calls').pc = "pending"
                     /\ Len(refreshes') = Len(refreshes) + 1
                     /\ Last(refreshes').phase = "secret"
                     /\ schemaRefreshInFlight' = Len(refreshes')]_vars

\* A non-interactive call was answered absent by the backoff rule after the
\* failure of a refresh that an interactive or forced call had started.
C29_Witness ==
    /\ calls # <<>>
    /\ Last(calls).path = "backoff"
    /\ Last(calls).pc = "returned"
    /\ Last(calls).result = Absent
    /\ ~Last(calls).force /\ ~Last(calls).interactive
    /\ ~RecentNonInteractiveFailure(now)
    /\ lastSchemaRefreshFailureAt # 0
    /\ schemaCache = Absent /\ schemaRefreshInFlight = 0

----------------------------------------------------------------------------
\* A `$` that opens no dollar tag.

\* The scanner is outside quotes, comments and dollar-quoted bodies.
AtTopLevel ==
    /\ ~inSingleQuote /\ ~inDoubleQuote /\ ~inLineComment
    /\ blockCommentDepth = 0 /\ dollarTag = <<>>

\* The `$` at offset k begins a valid tag: another `$` follows it, with only
\* letters, digits and underscores in between.
BeginsValidTag(s, k) ==
    \E c \in (k + 1)..(Len(s) - 1) :
        /\ At(s, c) = "$"
        /\ \A j \in (k + 1)..(c - 1) : At(s, j) \in TagChars

\* The text holds no quote and no comment sign, and none of its `$` begins a
\* valid tag.
OnlyStrayDollars ==
    /\ \A k \in 0..(Len(source) - 1) : At(source, k) \in {"a", ";", " ", "\n", "$"}
    /\ \A k \in 0..(Len(source) - 1) : At(source, k) = "$" => ~BeginsValidTag(source, k)

\* C30: a `$` met at top level that begins no valid dollar tag is consumed as
\* one ordinary character and opens no dollar-quoted state; a top-level `;`
\* that follows it in the same statement ends the statement there. A text
\* whose only special characters are such `$` is cut at every `;`.
C30_StrayDollarIsOrdinary ==
    /\ [](pc = "done" /\ OnlyStrayDollars =>
             /\ dollarTag = <<>>
             /\ Len(segments) = 1 + Cardinality({k \in 0..(Len(source) - 1) : At(source, k) = ";"})
             /\ \A n \in DOMAIN segments :
                    segments[n].end < Len(source) => At(source, segments[n].end - 1) = ";")
    /\ [][(pc = "scan" /\ i < Len(source) /\ AtTopLevel) =>
             /\ (At(source, i) = "$" /\ ~BeginsValidTag(source, i)) =>
                    /\ dollarTag' = <<>>
                    /\ i' = i + 1
                    /\ UNCHANGED <<statementStart, inSingleQuote, inDoubleQuote,
                                   inLineComment, blockCommentDepth, statements,
                                   segments>>
             /\ (/\ At(source, i) = ";"
                 /\ \E k \in statementStart..(i - 1) :
                        At(source, k) = "$" /\ ~BeginsValidTag(source, k)) =>
                    /\ Len(segments') = Len(segments) + 1
                    /\ segments'[Len(segments')].start = statementStart
                    /\ segments'[Len(segments')].end = i + 1
                    /\ statementStart' = i + 1
                    /\ AtTopLevel']_scanVars

\* "$a;a" was scanned: the `$` begins no tag, and the `;` gives the statement
\* "$a;" and leaves "a" for the last one.
C30_Witness ==
    /\ pc = "done"
    /\ source = <<"$", "a", ";", "a">>
    /\ Len(statements) = 2
    /\ statements[1].offset = 0
    /\ statements[1].content = <<"$", "a", ";">>
    /\ statements[2].offset = 3

----------------------------------------------------------------------------
\* Completion after a qualifier (src/unnamed/part_004) over the snapshot that
\* buildSchemaSnapshot makes of the metadata rows (src/src/constants/sql.ts).

\* The one value of a set of one value: {e(x) : x \in {v}} computes v once
\* and e of it.
TheOne(S) == CHOOSE x \in S : TRUE

Digits == {"0", "1", "2", "3", "4", "5", "6", "7", "8", "9"}
\* [A-Za-z_] and [A-Za-z0-9_$]
IdentStart == TagChars \ Digits
IdentChars == TagChars \cup {"$"}

\* The offset after the longest run of characters of chars that starts at k.
RECURSIVE SkipWhile(_, _, _)
SkipWhile(s, k, chars) ==
    IF k < Len(s) /\ At(s, k) \in chars THEN SkipWhile(s, k + 1, chars)
    ELSE k

\* The word stands at offset k of s, in any case (the i flag).
StartsWord(s, k, word) ==
    \A j \in DOMAIN word : ToLower(At(s, k + j - 1)) = word[j]

\* normalizeIdentifier, part_004 lines 182-184, and letter for letter the
\* same at sql.ts lines 523-525: trim, drop the `"` at both ends, lowercase.
StripQuotes(t) ==
    LET lead == SkipWhile(t, 0, {"\""})
        trail == CHOOSE n \in 0..Len(t) :
                     /\ \A k \in (Len(t) - n + 1)..Len(t) : t[k] = "\""
                     /\ n = Len(t) \/ t[Len(t) - n] # "\""
    IN  IF lead >= Len(t) THEN <<>> ELSE SubSeq(t, lead + 1, Len(t) - trail)

normalizeIdentifierKeepCase(identifier) == StripQuotes(Trim(identifier))

normalizeIdentifier(identifier) ==
    TheOne({[k \in DOMAIN stripped |-> ToLower(stripped[k])] :
               stripped \in {StripQuotes(Trim(identifier))}})

\* reference.split('.')
RECURSIVE SplitOnDot(_)
SplitOnDot(s) ==
    IF \A k \in DOMAIN s : s[k] # "." THEN <<s>>
    ELSE LET d == Min({k \in DOMAIN s : s[k] = "."})
         IN  <<SubSeq(s, 1, d - 1)>> \o SplitOnDot(SubSeq(s, d + 1, Len(s)))

\* parts.join('.')
RECURSIVE JoinWithDot(_)
JoinWithDot(parts) ==
    IF parts = <<>> THEN <<>>
    ELSE IF Len(parts) = 1 THEN parts[1]
    ELSE parts[1] \o <<".">> \o JoinWithDot(Tail(parts))

\* normalizeReference, part_004 lines 174-180.
normalizeReference(reference) ==
    TheOne({JoinWithDot(SelectSeq(normalized, LAMBDA part : Len(part) > 0)) :
               normalized \in {[k \in DOMAIN parts |-> normalizeIdentifier(parts[k])] :
                                  parts \in {SplitOnDot(reference)}}})

\* buildSchemaSnapshot, sql.ts lines 485-521. `tables` holds the SchemaTable
\* objects in the order they are made, which is the order of
\* [...byQualified.values()]; the two maps hold, in insertion order, their
\* keys with the places in `tables` of the objects they refer to.
EmptySnapshot == [present |-> TRUE, tables |-> <<>>, byQualified |-> <<>>, byName |-> <<>>]

\* map.get(key): the places of the entries under the key (none or one).
Entries(map, key) == {k \in DOMAIN map : map[k].key = key}

\* Lines 504-506: current = byName.get(table) ?? []; current.push(existing);
\* byName.set(table, current).
PushByName(map, table, ref) ==
    IF Entries(map, table) = {}
    THEN Append(map, [key |-> table, tables |-> <<ref>>])
    ELSE [map EXCEPT ![TheOne(Entries(map, table))].tables = Append(@, ref)]

\* Lines 509-511 without the test of includes.
PushColumnAlways(columns, column) == Append(columns, column)

\* Lines 509-511: the column is pushed unless the table has it.
PushColumn(columns, column) ==
    IF \E c \in DOMAIN columns : columns[c] = column THEN columns
    ELSE Append(columns, column)

\* One turn of the loop, lines 489-512.
AddRow(snapshot, row) ==
    LET schema == normalizeIdentifier(row.table_schema)
        table == normalizeIdentifier(row.table_name)
        qualifiedName == schema \o <<".">> \o table
        column == row.column_name
        known == Entries(snapshot.byQualified, qualifiedName)
        ref == Len(snapshot.tables) + 1
    IN  IF known = {}
        THEN [present |-> TRUE,
              tables |-> Append(snapshot.tables,
                                [schema |-> schema, name |-> table,
                                 qualifiedName |-> qualifiedName,
                                 columns |-> PushColumn(<<>>, column)]),
              byQualified |-> Append(snapshot.byQualified,
                                     [key |-> qualifiedName, table |-> ref]),
              byName |-> PushByName(snapshot.byName, table, ref)]
        ELSE [snapshot EXCEPT
                !.tables[snapshot.byQualified[TheOne(known)].table].columns
                    = PushColumn(@, column)]

RECURSIVE AddRows(_, _)
AddRows(snapshot, rows) ==
    IF rows = <<>> THEN snapshot
    ELSE TheOne({AddRows(next, Tail(rows)) : next \in {AddRow(snapshot, Head(rows))}})

buildSchemaSnapshot(rows) == AddRows(EmptySnapshot, rows)

\* snapshot.byQualified.get(key) (a list of the one table, or of none) and
\* snapshot.byName.get(key) ?? []
byQualified(snapshot, key) ==
    IF Entries(snapshot.byQualified, key) = {} THEN <<>>
    ELSE <<snapshot.tables[snapshot.byQualified[
               TheOne(Entries(snapshot.byQualified, key))].table]>>
byName(snapshot, key) ==
    IF Entries(snapshot.byName, key) = {} THEN <<>>
    ELSE [k \in DOMAIN snapshot.byName[TheOne(Entries(snapshot.byName, key))].tables |->
             snapshot.tables[snapshot.byName[
                 TheOne(Entries(snapshot.byName, key))].tables[k]]]

\* [...new Set(columns)]: each column once, where it is first met.
RECURSIVE Distinct(_)
Distinct(columns) ==
    IF columns = <<>> THEN <<>>
    ELSE TheOne({IF \E k \in DOMAIN front : front[k] = columns[Len(columns)]
                 THEN front
                 ELSE Append(front, columns[Len(columns)]) :
                    front \in {Distinct(SubSeq(columns, 1, Len(columns) - 1))}})

RECURSIVE ColumnsOfTables(_)
ColumnsOfTables(tables) ==
    IF tables = <<>> THEN <<>>
    ELSE Head(tables).columns \o ColumnsOfTables(Tail(tables))

\* Lines 146-153 with the first table of the name alone.
ColumnsForFirstTable(snapshot, normalized) ==
    IF normalized = <<>> THEN <<>>
    ELSE IF \E k \in DOMAIN normalized : normalized[k] = "."
    THEN ColumnsOfTables(byQualified(snapshot, normalized))
    ELSE IF byName(snapshot, normalized) = <<>> THEN <<>>
    ELSE Head(byName(snapshot, normalized)).columns

\* resolveColumnsForReference, part_004 lines 135-154.
ColumnsFor(snapshot, normalized) ==
    IF normalized = <<>> THEN <<>>
    ELSE IF \E k \in DOMAIN normalized : normalized[k] = "."
    THEN ColumnsOfTables(byQualified(snapshot, normalized))
    ELSE TheOne({Distinct(columns) :
                    columns \in {ColumnsOfTables(byName(snapshot, normalized))}})

resolveColumnsForReference(snapshot, reference) ==
    TheOne({ColumnsFor(snapshot, normalized) :
               normalized \in {normalizeReference(reference)}})

\* getAllColumns, part_004 lines 68-76.
getAllColumns(snapshot) ==
    TheOne({Distinct(columns) : columns \in {ColumnsOfTables(snapshot.tables)}})

\* The regular expression of extractTableAliases, part_004 lines 158-159,
\* matched as the engine matches it: leftmost, every quantifier greedy.
\* "[^"]+" or [A-Za-z_][A-Za-z0-9_$]* at offset k: the offset after it, or -1.
PartEnd(s, k) ==
    IF At(s, k) = "\""
    THEN LET closers == {c \in (k + 1)..(Len(s) - 1) : At(s, c) = "\""}
         IN  IF closers = {} \/ Min(closers) = k + 1 THEN -1
             ELSE Min(closers) + 1
    ELSE IF At(s, k) \in IdentStart THEN SkipWhile(s, k, IdentChars)
    ELSE -1

\* The first group: a part, then `.` and a second part where a `.` follows.
ReferenceEnd(s, k) ==
    LET first == PartEnd(s, k)
        dot == SkipWhile(s, first, Whitespace)
    IN  IF first = -1 THEN -1
        ELSE IF At(s, dot) = "."
        THEN PartEnd(s, SkipWhile(s, dot + 1, Whitespace))
        ELSE first

\* The second group, "?[A-Za-z_][A-Za-z0-9_$]*"?, at offset k.
AliasEnd(s, k) ==
    LET name == IF At(s, k) = "\"" THEN k + 1 ELSE k
        end == SkipWhile(s, name, IdentChars)
    IN  IF At(s, name) \notin IdentStart THEN -1
        ELSE IF At(s, end) = "\"" THEN end + 1
        ELSE end

NoMatch == [found |-> FALSE, reference |-> <<>>, alias |-> <<>>, end |-> 0]

\* The match that starts at offset p, if there is one.
MatchAt(s, p) ==
    LET k == SkipWhile(s, p + 4, Whitespace)
        e == ReferenceEnd(s, k)
        w == SkipWhile(s, e, Whitespace)
        afterAs == SkipWhile(s, w + 2, Whitespace)
        a == IF StartsWord(s, w, <<"a", "s">>) /\ afterAs > w + 2
                  /\ AliasEnd(s, afterAs) # -1
             THEN afterAs ELSE w
    IN  IF /\ p = 0 \/ At(s, p - 1) \notin TagChars
           /\ StartsWord(s, p, <<"f", "r", "o", "m">>) \/ StartsWord(s, p, <<"j", "o", "i", "n">>)
           /\ k > p + 4
           /\ e # -1
           /\ w > e
           /\ AliasEnd(s, a) # -1
        THEN [found |-> TRUE, reference |-> Slice(s, k, e),
              alias |-> Slice(s, a, AliasEnd(s, a)), end |-> AliasEnd(s, a)]
        ELSE NoMatch

\* regex.exec(sql) with lastIndex: the leftmost match at or after lastIndex.
Exec(s, lastIndex) ==
    TheOne({IF starts = {} THEN NoMatch ELSE MatchAt(s, Min(starts)) :
               starts \in {{p \in lastIndex..(Len(s) - 1) : MatchAt(s, p).found}}})

\* extractTableAliases, part_004 lines 156-172. The Map is a function from
\* the aliases set so far.
\* One turn of the loop, lines 162-167: aliases.set(alias, reference).
SetAlias(aliases, reference, alias) ==
    IF reference # <<>> /\ alias # <<>>
    THEN [x \in DOMAIN aliases \cup {alias} |->
             IF x = alias THEN reference ELSE aliases[x]]
    ELSE aliases

RECURSIVE AliasLoop(_, _, _)
AliasLoop(s, lastIndex, aliases) ==
    TheOne({IF ~match.found THEN aliases
            ELSE TheOne({AliasLoop(s, match.end, next) :
                    next \in {TheOne({SetAlias(aliases, reference, alias) :
                                 reference \in {normalizeReference(match.reference)},
                                 alias \in {normalizeIdentifier(match.alias)}})}}) :
               match \in {Exec(s, lastIndex)}})

extractTableAliases(sql) == AliasLoop(sql, 0, [x \in {} |-> <<>>])

\* /([A-Za-z_][A-Za-z0-9_$]*)\.\s*([A-Za-z_][A-Za-z0-9_$]*)?$/ at offset p of
\* the line prefix (part_004 lines 35-37).
QualifierAt(prefix, p) ==
    LET e == SkipWhile(prefix, p, IdentChars)
        d == SkipWhile(prefix, e + 1, Whitespace)
    IN  /\ At(prefix, p) \in IdentStart
        /\ At(prefix, e) = "."
        /\ \/ d = Len(prefix)
           \/ /\ At(prefix, d) \in IdentStart
              /\ SkipWhile(prefix, d, IdentChars) = Len(prefix)

QualifierStarts(prefix) == {p \in 0..(Len(prefix) - 1) : QualifierAt(prefix, p)}

\* qualifierMatch[1]
Qualifier(prefix) ==
    LET p == Min(QualifierStarts(prefix))
    IN  Slice(prefix, p, SkipWhile(prefix, p, IdentChars))

\* /\b(from|join|update|into|table)\s+[\w."$]*$/i (line 46)
TABLE_CONTEXT_WORDS ==
    {<<"f", "r", "o", "m">>, <<"j", "o", "i", "n">>,
     <<"u", "p", "d", "a", "t", "e">>, <<"i", "n", "t", "o">>,
     <<"t", "a", "b", "l", "e">>}

tableContext(prefix) ==
    \E w \in WordsOf(prefix) :
        LET d == SkipWhile(prefix, w[2], Whitespace)
        IN  /\ WordAt(prefix, w) \in TABLE_CONTEXT_WORDS
            /\ d > w[2]
            /\ SkipWhile(prefix, d, TagChars \cup {".", "\"", "$"}) = Len(prefix)

\* /\bselect\s+[\w\W]*$/i (line 52)
isSelectContext(prefix) ==
    \E w \in WordsOf(prefix) :
        /\ WordAt(prefix, w) = SelectWord
        /\ At(prefix, w[2]) \in Whitespace

\* Line 112: what the item of a table inserts.
insertText(table) ==
    IF table.schema = <<"p", "u", "b", "l", "i", "c">> THEN table.name
    ELSE table.qualifiedName

\* createTableCompletionItems (lines 105-119): one item per table, labelled
\* qualifiedName.
TableItems(snapshot) ==
    [k \in DOMAIN snapshot.tables |->
        [label |-> snapshot.tables[k].qualifiedName,
         insertText |-> insertText(snapshot.tables[k])]]

\* Lines 46-56 with the test of line 52 made before the one of line 46.
CompletionItemsSelectFirst(snapshot, sql, prefix) ==
    IF ~snapshot.present
    THEN [keywords |-> TRUE, tables |-> <<>>, columns |-> <<>>]
    ELSE IF QualifierStarts(prefix) # {}
    THEN TheOne({[keywords |-> FALSE, tables |-> <<>>,
                  columns |-> resolveColumnsForReference(snapshot, reference)] :
                    reference \in {IF qualifier \in DOMAIN aliases
                                     THEN aliases[qualifier] ELSE qualifier :
                                       aliases \in {extractTableAliases(sql)},
                                       qualifier \in {normalizeIdentifier(Qualifier(prefix))}}})
    ELSE IF isSelectContext(prefix)
    THEN [keywords |-> FALSE, tables |-> <<>>, columns |-> getAllColumns(snapshot)]
    ELSE IF tableContext(prefix)
    THEN [keywords |-> FALSE, tables |-> TableItems(snapshot), columns |-> <<>>]
    ELSE [keywords |-> TRUE, tables |-> TableItems(snapshot), columns |-> <<>>]

\* provideCompletionItems on a document whose languageId is 'sql'
\* (part_004 lines 18-59).
CompletionItems(snapshot, sql, prefix) ==
    IF ~snapshot.present
    THEN [keywords |-> TRUE, tables |-> <<>>, columns |-> <<>>]
    ELSE IF QualifierStarts(prefix) # {}
    THEN TheOne({[keywords |-> FALSE, tables |-> <<>>,
                  columns |-> resolveColumnsForReference(snapshot, reference)] :
                    reference \in {IF qualifier \in DOMAIN aliases
                                     THEN aliases[qualifier] ELSE qualifier :
                                       aliases \in {extractTableAliases(sql)},
                                       qualifier \in {normalizeIdentifier(Qualifier(prefix))}}})
    ELSE IF tableContext(prefix)
    THEN [keywords |-> FALSE, tables |-> TableItems(snapshot), columns |-> <<>>]
    ELSE IF isSelectContext(prefix)
    THEN [keywords |-> FALSE, tables |-> <<>>, columns |-> getAllColumns(snapshot)]
    ELSE [keywords |-> TRUE, tables |-> TableItems(snapshot), columns |-> <<>>]

\* The metadata rows the query may return, in the order of its ORDER BY; with
\* each, the table it describes (`of`, which no code reads).
UsersTable == <<"public", "users">>
OrdersTable == <<"app", "orders">>
CandidateRows ==
    <<[table_schema |-> <<"p", "u", "b", "l", "i", "c">>, table_name |-> <<"\"", "U", "s", "e", "r", "s", "\"">>,
       column_name |-> <<"i", "d">>, of |-> UsersTable],
      [table_schema |-> <<"p", "u", "b", "l", "i", "c">>, table_name |-> <<"U", "S", "E", "R", "S">>,
       column_name |-> <<"n", "a", "m", "e">>, of |-> UsersTable],
      [table_schema |-> <<"a", "p", "p">>, table_name |-> <<"o", "r", "d", "e", "r", "s">>,
       column_name |-> <<"t", "o", "t", "a", "l">>, of |-> OrdersTable],
      [table_schema |-> <<"a", "p", "p">>, table_name |-> <<"o", "r", "d", "e", "r", "s">>,
       column_name |-> <<"i", "d">>, of |-> OrdersTable]>>

\* The lists of up to MaxRows of them, in that order.
RECURSIVE Picked(_, _)
Picked(rows, picks) ==
    IF rows = <<>> THEN <<>>
    ELSE IF Len(rows) \in picks
         THEN Append(Picked(SubSeq(rows, 1, Len(rows) - 1), picks), rows[Len(rows)])
         ELSE Picked(SubSeq(rows, 1, Len(rows) - 1), picks)

RowLists ==
    {Picked(CandidateRows, picks) :
        picks \in {p \in SUBSET DOMAIN CandidateRows : Cardinality(p) <= MaxRows}}

\* How a statement names a table, and the alias it may give it.
TableNames ==
    {[text |-> <<"u", "s", "e", "r", "s">>, of |-> UsersTable],
     [text |-> <<"\"", "U", "s", "e", "r", "s", "\"">>, of |-> UsersTable],
     [text |-> <<"a", "p", "p", ".", "o", "r", "d", "e", "r", "s">>, of |-> OrdersTable]}
AliasForms ==
    {[text |-> <<>>, alias |-> <<>>],
     [text |-> <<" ", "u">>, alias |-> <<"u">>],
     [text |-> <<" ", "A", "S", " ", "o">>, alias |-> <<"o">>]}
Clauses == {[table |-> t, as |-> a] : t \in TableNames, a \in AliasForms}
ClauseLists == UNION {[1..n -> Clauses] : n \in 1..MaxClauses}

\* The statement: SELECT q.id FROM t1 [alias] JOIN t2 [alias] ...
RECURSIVE FromJoin(_, _)
FromJoin(clauses, first) ==
    IF clauses = <<>> THEN <<>>
    ELSE (IF first THEN <<" ", "F", "R", "O", "M", " ">> ELSE <<" ", "J", "O", "I", "N", " ">>)
             \o Head(clauses).table.text \o Head(clauses).as.text
             \o FromJoin(Tail(clauses), FALSE)

Statement(qualifier, clauses) ==
    <<"S", "E", "L", "E", "C", "T", " ">> \o qualifier \o <<".", "i", "d">> \o FromJoin(clauses, TRUE)

\* The qualifiers typed, and where the cursor is: right after `q.`, or
\* right after `FROM `.
Qualifiers == {<<"u">>, <<"o">>, <<"U", "s", "e", "r", "s">>}
Cursors == {"qualifier", "from"}
LinePrefix(qualifier, cursor) ==
    IF cursor = "qualifier" THEN <<"S", "E", "L", "E", "C", "T", " ">> \o qualifier \o <<".">>
    ELSE <<"S", "E", "L", "E", "C", "T", " ">> \o qualifier \o <<".", "i", "d">> \o <<" ", "F", "R", "O", "M", " ">>

\* A completion is asked for in an SQL document; the metadata query will
\* return metadataRows.
CompleteInit ==
    /\ IdleBesides("complete")
    /\ languageId = "sql"
    /\ metadataRows \in RowLists
    /\ fromClauses \in ClauseLists
    /\ \E q \in Qualifiers, cursor \in Cursors :
          /\ sqlText = Statement(q, fromClauses)
          /\ linePrefix = LinePrefix(q, cursor)
    /\ schemaSnapshot = NoSnapshot
    /\ items = NoItems
    /\ ppc = "start"

\* loadSchema builds the snapshot of the rows and caches it (sql.ts 274-277).
CacheSnapshot ==
    /\ ppc = "start"
    /\ UNCHANGED besidesComplete
    /\ schemaSnapshot' = buildSchemaSnapshot(metadataRows)
    /\ ppc' = "ready"
    /\ UNCHANGED <<languageId, metadataRows, fromClauses, sqlText, linePrefix,
                   items>>

\* provideCompletionItems runs, with the snapshot if one is cached. A
\* document that is neither SQL nor Python has no completion context
\* (lines 22-25 and 65-74) and gets the empty list; the context of a Python
\* document is the one of getPythonSqlCompletionContext.
ProvideCompletionItems ==
    /\ ppc \in {"start", "ready"}
    /\ UNCHANGED besidesComplete
    /\ items' = IF languageId = "sql"
                 THEN CompletionItems(schemaSnapshot, sqlText, linePrefix)
                 ELSE NoItems
    /\ ppc' = "done"
    /\ UNCHANGED <<languageId, metadataRows, fromClauses, sqlText, linePrefix,
                   schemaSnapshot>>

CompleteNext == CacheSnapshot \/ ProvideCompletionItems

CompleteSpec == CompleteInit /\ [][CompleteNext]_<<completeVars, besidesComplete>>

----------------------------------------------------------------------------
\* Completion after a qualifier.

\* The columns the metadata rows give the table a statement names.
ColumnsOf(table) ==
    {metadataRows[k].column_name :
        k \in {n \in DOMAIN metadataRows : metadataRows[n].of = table}}

Range(seq) == {seq[k] : k \in DOMAIN seq}

\* The request is made right after `q.`, and q is the alias of exactly one
\* clause of the statement, clause n.
AliasTyped(n) ==
    /\ linePrefix # <<>> /\ linePrefix[Len(linePrefix)] = "."
    /\ n \in DOMAIN fromClauses
    /\ fromClauses[n].as.alias # <<>>
    /\ linePrefix = LinePrefix(fromClauses[n].as.alias, "qualifier")
    /\ \A m \in DOMAIN fromClauses :
          fromClauses[m].as.alias = fromClauses[n].as.alias => m = n

\* C24: when the line prefix ends with `qualifier.` and a from or join clause
\* of the SQL text makes that qualifier the alias of a table, with or without
\* `as`, the completion items are the columns of that table.
C24_AliasResolvesToItsTable ==
    (ppc = "done" /\ schemaSnapshot.present) =>
        \A n \in DOMAIN fromClauses :
            AliasTyped(n) =>
                /\ ~items.keywords /\ items.tables = <<>>
                /\ Range(items.columns) = ColumnsOf(fromClauses[n].table.of)

\* C25: the rows that spell the table "Users" and USERS make one SchemaTable;
\* the references users, "Users" and Users all resolve to it, and so does a
\* completion request that names it through an alias or literally.
C25_OneTableWhateverTheSpelling ==
    schemaSnapshot.present =>
        /\ Cardinality({k \in DOMAIN schemaSnapshot.tables :
                           schemaSnapshot.tables[k].name = <<"u", "s", "e", "r", "s">>})
              = (IF ColumnsOf(UsersTable) = {} THEN 0 ELSE 1)
        /\ \A k \in DOMAIN schemaSnapshot.tables :
              schemaSnapshot.tables[k].name = <<"u", "s", "e", "r", "s">> =>
                  Range(schemaSnapshot.tables[k].columns) = ColumnsOf(UsersTable)
        /\ \A reference \in {<<"u", "s", "e", "r", "s">>, <<"\"", "U", "s", "e", "r", "s", "\"">>, <<"U", "s", "e", "r", "s">>, <<" ", "\"", "U", "S", "E", "R", "S", "\"", " ">>} :
              /\ byName(schemaSnapshot, normalizeReference(reference))
                    = byName(schemaSnapshot, <<"u", "s", "e", "r", "s">>)
              /\ Range(resolveColumnsForReference(schemaSnapshot, reference))
                    = ColumnsOf(UsersTable)
        /\ (/\ ppc = "done"
            /\ \/ linePrefix = LinePrefix(<<"U", "s", "e", "r", "s">>, "qualifier")
               \/ /\ fromClauses[1].table.of = UsersTable
                  /\ fromClauses[1].as.alias # <<>>
                  /\ AliasTyped(1))
              => Range(items.columns) = ColumnsOf(UsersTable)

\* The rows spell the table "Users" and USERS, the statement is
\* SELECT u.id FROM "Users" u, and the request after `u.` got both columns.
C25_Witness ==
    /\ ppc = "done"
    /\ Len(metadataRows) = 2
    /\ metadataRows[1].table_name = <<"\"", "U", "s", "e", "r", "s", "\"">>
    /\ metadataRows[2].table_name = <<"U", "S", "E", "R", "S">>
    /\ Len(fromClauses) = 1
    /\ fromClauses[1].table.text = <<"\"", "U", "s", "e", "r", "s", "\"">>
    /\ fromClauses[1].as.alias = <<"u">>
    /\ linePrefix = LinePrefix(<<"u">>, "qualifier")
    /\ items.columns = <<<<"i", "d">>, <<"n", "a", "m", "e">>>>

----------------------------------------------------------------------------
\* SqlLintManager (src/unnamed/part_002) under the events of the workspace.

\* document.isClosed || document.version !== version (lines 49 and 60), for
\* the document object and the version a timer or a validation has captured.
isStaleNever(run) == FALSE

isStale(run) ==
    \/ documents[run.uri].object # run.object
    \/ documents[run.uri].isClosed
    \/ documents[run.uri].version # run.version

\* clearTimeout(existing), lines 17-20 and 31-33: the timers still pending.
ClearNothing(existing) == pendingTimers

ClearTimeout(existing) ==
    IF existing # 0 THEN {t \in pendingTimers : t.id # existing}
    ELSE pendingTimers

\* schedule(document), lines 11-27, for the SQL document now behind u; doc is
\* that document after the event that leads to the call.
schedule(u, doc) ==
    LET call == Len(scheduleLog) + 1
    IN  /\ pendingTimers' = ClearTimeout(timers[u])
                               \cup {[id |-> call, uri |-> u, object |-> doc.object,
                                      version |-> doc.version,
                                      due |-> lintNow + DEBOUNCE_MS]}
        /\ timers' = [timers EXCEPT ![u] = call]
        /\ scheduleLog' = Append(scheduleLog, [uri |-> u, at |-> lintNow])

\* A SQL document is opened, or opened again after it was closed: a new
\* TextDocument object, and onDidOpenTextDocument (part_001 lines 110-116).
OpenDocument(u, blank) ==
    /\ documents[u].isClosed
    /\ Len(scheduleLog) < MaxSchedules
    /\ UNCHANGED besidesLint
    /\ documents' = [documents EXCEPT ![u] =
                        [object |-> documents[u].object + 1, version |-> 1,
                         isClosed |-> FALSE, blank |-> blank]]
    /\ schedule(u, documents'[u])
    /\ UNCHANGED <<validations, diagnostics, lintNow, started, applied>>

\* onDidChangeTextDocument (part_001 lines 98-108): the text was edited and
\* the version went up, or the event reports no change of content; the
\* activation loop (lines 124-130) makes the same call.
ChangeDocument(u, edited, blank) ==
    /\ ~documents[u].isClosed
    /\ Len(scheduleLog) < MaxSchedules
    /\ ~edited => blank = documents[u].blank
    /\ UNCHANGED besidesLint
    /\ documents' = [documents EXCEPT ![u].version = IF edited THEN @ + 1 ELSE @,
                                      ![u].blank = blank]
    /\ schedule(u, documents'[u])
    /\ UNCHANGED <<validations, diagnostics, lintNow, started, applied>>

\* onDidCloseTextDocument (part_001 lines 118-122) and clear(uri), part_002
\* lines 29-37.
CloseDocument(u) ==
    /\ ~documents[u].isClosed
    /\ UNCHANGED besidesLint
    /\ documents' = [documents EXCEPT ![u].isClosed = TRUE]
    /\ pendingTimers' = ClearTimeout(timers[u])
    /\ timers' = [timers EXCEPT ![u] = 0]
    /\ diagnostics' = [diagnostics EXCEPT ![u] = FALSE]
    /\ UNCHANGED <<validations, lintNow, scheduleLog, started, applied>>

\* A timer fires: lintDocument up to its await, lines 47-59.
TimerFires(t) ==
    /\ t \in pendingTimers
    /\ lintNow >= t.due
    /\ UNCHANGED besidesLint
    /\ pendingTimers' = pendingTimers \ {t}
    /\ timers' = [timers EXCEPT ![t.uri] = 0]
    /\ IF isStale(t)
       THEN UNCHANGED <<validations, diagnostics, started>>
       ELSE IF documents[t.uri].blank
       THEN /\ diagnostics' = [diagnostics EXCEPT ![t.uri] = FALSE]
            /\ UNCHANGED <<validations, started>>
       ELSE /\ validations' = validations \cup {t}
            /\ started' = Append(started, t)
            /\ UNCHANGED diagnostics
    /\ UNCHANGED <<documents, lintNow, scheduleLog, applied>>

\* validateSql returns: lintDocument after its await, lines 60-75.
ValidationReturns(v, kind) ==
    /\ v \in validations
    /\ UNCHANGED besidesLint
    /\ validations' = validations \ {v}
    /\ IF isStale(v)
       THEN UNCHANGED <<diagnostics, applied>>
       ELSE /\ diagnostics' = [diagnostics EXCEPT ![v.uri] = (kind = "error")]
            /\ applied' = Append(applied, v)
    /\ UNCHANGED <<documents, timers, pendingTimers, lintNow, scheduleLog, started>>

\* Time passes: a third of the debounce delay, or all of it.
LintTick(d) ==
    /\ lintNow + d <= MaxLintTime * (DEBOUNCE_MS \div 3)
    /\ UNCHANGED besidesLint
    /\ lintNow' = lintNow + d
    /\ UNCHANGED <<documents, timers, pendingTimers, validations, diagnostics,
                   scheduleLog, started, applied>>

LintInit == IdleBesides("lint") /\ LintIdle

LintNext ==
    \/ \E u \in Uris, blank \in BOOLEAN : OpenDocument(u, blank)
    \/ \E u \in Uris, edited, blank \in BOOLEAN : ChangeDocument(u, edited, blank)
    \/ \E u \in Uris : CloseDocument(u)
    \/ \E t \in pendingTimers : TimerFires(t)
    \/ \E v \in validations, kind \in {"ok", "skipped", "error"} : ValidationReturns(v, kind)
    \/ \E d \in {DEBOUNCE_MS \div 3, DEBOUNCE_MS} : LintTick(d)

LintSpec == LintInit /\ [][LintNext]_<<lintVars, besidesLint>>

----------------------------------------------------------------------------
\* Staleness and debouncing of the lint runs.

\* The document a run captured is still open at the version it captured.
StillCurrent(run) ==
    /\ ~documents[run.uri].isClosed
    /\ documents[run.uri].object = run.object
    /\ documents[run.uri].version = run.version

\* C26: when validateSql returns, its result is applied (a diagnostic set or
\* the diagnostics of the document cleared) only if the document is still
\* open and at the version captured when the lint was scheduled; otherwise
\* the result is dropped and the diagnostics stay as they are, whatever edits
\* and closes came in between.
C26_NoStaleResultApplied ==
    /\ [](\A k \in DOMAIN applied : \E j \in DOMAIN started : started[j] = applied[k])
    /\ [][\A v \in validations :
             v \notin validations' =>
                 IF StillCurrent(v)
                 THEN applied' = Append(applied, v)
                 ELSE applied' = applied /\ diagnostics' = diagnostics]_lintVars

\* A validation started for version 1 of a.sql returned after an edit and
\* left no trace.
C26_Witness ==
    /\ started # <<>>
    /\ started[1].uri = "a.sql"
    /\ started[1] \notin validations
    /\ applied = <<>>
    /\ ~documents["a.sql"].isClosed
    /\ documents["a.sql"].object = started[1].object
    /\ documents["a.sql"].version > started[1].version

\* The timers pending for a URI.
PendingFor(u) == {t \in pendingTimers : t.uri = u}

\* C27: a URI has at most one timer pending, the one this.timers holds; a
\* schedule() call leaves for its URI only the timer it arms, due 450 ms
\* later, and leaves the timers of the other URIs alone; a validation is
\* started at most once per schedule() call, and only for a call that no
\* other call for the same URI followed within 450 ms.
C27_DebouncedPerDocument ==
    /\ [](\A u \in Uris :
             /\ Cardinality(PendingFor(u)) <= 1
             /\ \A t \in PendingFor(u) : timers[u] = t.id)
    /\ [](\A j, k \in DOMAIN started :
             /\ started[j].id = started[k].id => j = k
             /\ \A c \in DOMAIN scheduleLog :
                   (c > started[k].id /\ scheduleLog[c].uri = started[k].uri)
                       => scheduleLog[c].at >= scheduleLog[started[k].id].at + DEBOUNCE_MS)
    /\ [][Len(scheduleLog') > Len(scheduleLog) =>
             LET u == scheduleLog'[Len(scheduleLog')].uri
             IN  /\ Cardinality({t \in pendingTimers' : t.uri = u}) = 1
                 /\ \A t \in pendingTimers' :
                       t.uri = u => /\ t.id = Len(scheduleLog')
                                    /\ t.due = lintNow + DEBOUNCE_MS
                 /\ \A w \in Uris \ {u} :
                       /\ timers'[w] = timers[w]
                       /\ {t \in pendingTimers' : t.uri = w} = PendingFor(w)]_lintVars

\* Two schedule() calls for a.sql less than 450 ms apart, and one validation,
\* started for the second.
C27_Witness ==
    /\ Len(scheduleLog) = 2
    /\ scheduleLog[1].uri = "a.sql" /\ scheduleLog[2].uri = "a.sql"
    /\ scheduleLog[2].at > scheduleLog[1].at
    /\ scheduleLog[2].at < scheduleLog[1].at + DEBOUNCE_MS
    /\ Len(started) = 1
    /\ started[1].id = 2

\* ---------------------------------------------------------------------
\* validateSql (src/src/constants/sql.ts, lines 177-211): one call, from
\* its sql to its result, with every await a step that succeeds or throws.
\* ---------------------------------------------------------------------

\* The longest sql validated.
MaxSqlLen == 3

SqlChars == {"a", ";", " "}
SqlTexts == UNION {[1..n -> SqlChars] : n \in 0..MaxSqlLen}

\* What stands for undefined where a statement is expected: the code tests
\* it with !statement, which the empty string satisfies too.
NoStatement == <<>>

\* .replace(/;\s*$/, ''): the first ";" that only whitespace follows.
StripFinalSemicolon(text) ==
    LET n == Len(text) - TrailingWhitespace(text)
    IN  IF n >= 1 /\ text[n] = ";" THEN SubSeq(text, 1, n - 1) ELSE text

\* normalizeForValidation (lines 436-452).
normalizeForValidation(sql) ==
    LET trimmed == Trim(sql)
        stripped == Trim(StripFinalSemicolon(trimmed))
    IN  IF trimmed = <<>> THEN NoStatement
        ELSE IF stripped = <<>> THEN NoStatement
        ELSE IF \E k \in 1..Len(stripped) : stripped[k] = ";" THEN NoStatement
        ELSE stripped

RECURSIVE LeadingDigits(_)
LeadingDigits(value) ==
    IF value # <<>> /\ Head(value) \in Digits
    THEN 1 + LeadingDigits(Tail(value))
    ELSE 0

DigitValue(d) == CHOOSE n \in 0..9 : <<"0", "1", "2", "3", "4", "5", "6", "7", "8", "9">>[n + 1] = d

RECURSIVE Decimal(_)
Decimal(digits) ==
    IF digits = <<>> THEN 0
    ELSE 10 * Decimal(SubSeq(digits, 1, Len(digits) - 1))
         + DigitValue(digits[Len(digits)])

\* parsePgPosition (lines 454-460): <<>> is undefined, <<n>> the number n.
\* Number.parseInt reads the leading digits; none is NaN. (No text here
\* starts with whitespace or a sign.)
parsePgPosition(value) ==
    IF value = <<>> THEN <<>>
    ELSE IF LeadingDigits(value) = 0 THEN <<>>
    ELSE <<Decimal(SubSeq(value, 1, LeadingDigits(value)))>>

PARAMETER_TYPE_ERROR_CODES_ONE == {"42P18"}
PARAMETER_TYPE_ERROR_CODES == {"42P18", "42P02"}

\* What an await of lines 192-194 can throw: objects with or without code,
\* position and message, and a value that is no object. text is String(error).
Thrown ==
    {[object |-> TRUE, text |-> "error: m1", code |-> "42P18",
      position |-> <<>>, message |-> "m1"],
     [object |-> TRUE, text |-> "error: m2", code |-> "42P02",
      position |-> <<"3">>, message |-> "m2"],
     [object |-> TRUE, text |-> "error: m3", code |-> "42601",
      position |-> <<"1", "2">>, message |-> "m3"],
     [object |-> TRUE, text |-> "error: m4", code |-> "42703",
      position |-> <<"x">>, message |-> "m4"],
     [object |-> TRUE, text |-> "Error: m5", code |-> Undefined,
      position |-> <<>>, message |-> "m5"],
     [object |-> TRUE, text |-> "[object Object]", code |-> "08006",
      position |-> <<"7">>, message |-> Undefined],
     [object |-> FALSE, text |-> "boom", code |-> Undefined,
      position |-> <<>>, message |-> Undefined]}

\* asPgError (lines 462-467).
asPgError(error) ==
    IF error.object
    THEN [message |-> error.message, code |-> error.code,
          position |-> error.position]
    ELSE [message |-> error.text, code |-> Undefined, position |-> <<>>]

\* The catch block, lines 196-208: what it returns for the error caught.
CatchResult(error) ==
    IF asPgError(error).code # Undefined
       /\ asPgError(error).code \in PARAMETER_TYPE_ERROR_CODES
    THEN [kind |-> "skipped"]
    ELSE [kind |-> "error",
          message |-> IF asPgError(error).message # Undefined
                      THEN asPgError(error).message
                      ELSE error.text,
          position |-> parsePgPosition(asPgError(error).position),
          code |-> asPgError(error).code]

\* The names line 188 can draw.
StatementNames == {"sqllens_lint_1_7", "sqllens_lint_2_7"}

\* The template strings of lines 193 and 194.
PrepareQuery(name, statement) == <<"PREPARE", " ", name, " ", "AS", " ">> \o statement
DeallocateQuery(name) == <<"DEALLOCATE", " ", name>>

ValidateInit ==
    /\ IdleBesides("validate")
    /\ validateInput \in [sql : SqlTexts, connectionString : BOOLEAN]
    /\ client = NoClient
    /\ caught = NoError
    /\ validateResult = NoResult
    /\ vpc = "called"

\* Lines 178-192: no statement or no connection string returns 'skipped';
\* otherwise the client is made and connect() is awaited.
ValidateSql(name) ==
    /\ vpc = "called"
    /\ IF normalizeForValidation(validateInput.sql) = NoStatement
          \/ ~validateInput.connectionString
       THEN /\ validateResult' = [kind |-> "skipped"]
            /\ vpc' = "done"
            /\ UNCHANGED client
       ELSE /\ client' = [created |-> client.created + 1, name |-> name,
                          state |-> "connecting", sent |-> <<>>, ends |-> 0]
            /\ vpc' = "connect"
            /\ UNCHANGED validateResult
    /\ UNCHANGED <<validateInput, caught, besidesValidate>>

\* connect() resolved; line 193 sends the PREPARE.
ConnectSucceeds ==
    /\ vpc = "connect"
    /\ client' = [client EXCEPT
                    !.state = "connected",
                    !.sent = Append(@, PrepareQuery(client.name,
                                 normalizeForValidation(validateInput.sql)))]
    /\ vpc' = "prepare"
    /\ UNCHANGED <<validateInput, caught, validateResult, besidesValidate>>

\* The PREPARE resolved; line 194 sends the DEALLOCATE.
PrepareSucceeds ==
    /\ vpc = "prepare"
    /\ client' = [client EXCEPT !.sent = Append(@, DeallocateQuery(client.name))]
    /\ vpc' = "deallocate"
    /\ UNCHANGED <<validateInput, caught, validateResult, besidesValidate>>

\* The DEALLOCATE resolved; line 195 returns 'ok' through the finally.
DeallocateSucceeds ==
    /\ vpc = "deallocate"
    /\ validateResult' = [kind |-> "ok"]
    /\ vpc' = "finally"
    /\ UNCHANGED <<validateInput, client, caught, besidesValidate>>

\* One of the three awaits rejected; lines 196-208 choose the result.
AwaitThrows(error) ==
    /\ vpc \in {"connect", "prepare", "deallocate"}
    /\ caught' = [thrown |-> TRUE, error |-> error, at |-> vpc]
    /\ validateResult' = CatchResult(error)
    /\ vpc' = "finally"
    /\ UNCHANGED <<validateInput, client, besidesValidate>>

\* safeCloseClient (lines 469-475) in the finally of lines 209-211: end()
\* is called and its failure swallowed; then validateSql returns.
safeCloseClient(endFails) ==
    /\ vpc = "finally"
    /\ client' = [client EXCEPT !.ends = @ + 1,
                                !.state = IF endFails THEN "broken" ELSE "ended"]
    /\ vpc' = "done"
    /\ UNCHANGED <<validateInput, caught, validateResult, besidesValidate>>

ValidateNext ==
    \/ \E name \in StatementNames : ValidateSql(name)
    \/ ConnectSucceeds
    \/ PrepareSucceeds
    \/ DeallocateSucceeds
    \/ \E error \in Thrown : AwaitThrows(error)
    \/ \E endFails \in BOOLEAN : safeCloseClient(endFails)

ValidateSpec == ValidateInit /\ [][ValidateNext]_<<validateVars, besidesValidate>>

\* The position a result must carry for the position text of the error.
PositionRead(text) ==
    IF text = <<"3">> THEN <<3>>
    ELSE IF text = <<"7">> THEN <<7>>
    ELSE IF text = <<"1", "2">> THEN <<12>>
    ELSE <<>>

\* Whether the text holds a ";".
HasSemicolon(text) == \E k \in 1..Len(text) : text[k] = ";"

\* C28: validateSql sends PREPARE <name> AS <statement> and then
\* DEALLOCATE <name>, both on its one client, and never the statement on
\* its own (nor a second command behind a ";"); an error with code 42P18 or
\* 42P02 gives 'skipped', any other error gives 'error' with its message,
\* its position if it has a readable one, and its code; both commands
\* succeeding gives 'ok'; and whenever a client was made, end() was called
\* on it before validateSql returns.
C28_PrepareThenDeallocate ==
    /\ client.created <= 1
    /\ Len(client.sent) <= 2
    /\ \A q \in 1..Len(client.sent) :
          /\ client.sent[q] # Trim(validateInput.sql)
          /\ ~HasSemicolon(client.sent[q])
          /\ client.sent[q][1] = IF q = 1 THEN "PREPARE" ELSE "DEALLOCATE"
          /\ client.sent[q][3] = client.name
    /\ Len(client.sent) >= 1 =>
          /\ Len(client.sent[1]) > 6
          /\ SubSeq(client.sent[1], 4, 6) = <<" ", "AS", " ">>
          /\ \E a \in 0..Len(validateInput.sql) :
               \E b \in a..Len(validateInput.sql) :
                  /\ SubSeq(client.sent[1], 7, Len(client.sent[1]))
                       = SubSeq(validateInput.sql, a + 1, b)
                  /\ \A k \in (1..a) \cup ((b + 1)..Len(validateInput.sql)) :
                        validateInput.sql[k] \in {" ", ";"}
    /\ Len(client.sent) = 2 => Len(client.sent[2]) = 3
    /\ validateResult.kind = "ok" => ~caught.thrown /\ Len(client.sent) = 2
    /\ vpc = "done" =>
          /\ client.created = 0 => validateResult.kind = "skipped"
          /\ client.created = 1 => client.ends = 1
          /\ client.created = 1 /\ ~caught.thrown => validateResult.kind = "ok"
          /\ caught.thrown =>
                IF caught.error.object /\ caught.error.code \in {"42P18", "42P02"}
                THEN validateResult = [kind |-> "skipped"]
                ELSE /\ validateResult.kind = "error"
                     /\ validateResult.message
                          = IF caught.error.object /\ caught.error.message # Undefined
                            THEN caught.error.message
                            ELSE caught.error.text
                     /\ validateResult.position
                          = IF caught.error.object
                            THEN PositionRead(caught.error.position)
                            ELSE <<>>
                     /\ validateResult.code
                          = IF caught.error.object THEN caught.error.code
                            ELSE Undefined

\* A PREPARE that failed with 42P02 was skipped and the client ended.
C28_Witness ==
    /\ vpc = "done"
    /\ caught.thrown
    /\ caught.at = "prepare"
    /\ caught.error.code = "42P02"
    /\ validateResult.kind = "skipped"
    /\ Len(client.sent) = 1
    /\ client.ends = 1
    /\ validateInput.sql = <<"a", ";", " ">>

----------------------------------------------------------------------------
\* Nesting block comments and the exclusive lexer states of the scanner.

\* C31: block comments nest. Inside a block comment each `/*` adds one to
\* blockCommentDepth and each `*/` takes one away, both consumed as a pair;
\* nothing else changes the depth, which is never negative; the comment is
\* over only when the depth is back at zero; and as long as the depth is
\* above zero no character splits a statement or opens another state.
C31_BlockCommentsNest ==
    /\ [](blockCommentDepth >= 0)
    /\ [][(pc = "scan" /\ i < Len(source)) =>
             /\ blockCommentDepth > 0 =>
                   /\ IF At(source, i) = "/" /\ At(source, i + 1) = "*"
                      THEN blockCommentDepth' = blockCommentDepth + 1 /\ i' = i + 2
                      ELSE IF At(source, i) = "*" /\ At(source, i + 1) = "/"
                      THEN blockCommentDepth' = blockCommentDepth - 1 /\ i' = i + 2
                      ELSE blockCommentDepth' = blockCommentDepth /\ i' = i + 1
                   /\ UNCHANGED <<statementStart, statements, segments,
                                  inSingleQuote, inDoubleQuote, inLineComment,
                                  dollarTag>>
             /\ (blockCommentDepth = 0 /\ blockCommentDepth' # 0) =>
                   /\ blockCommentDepth' = 1
                   /\ At(source, i) = "/" /\ At(source, i + 1) = "*"
                   /\ i' = i + 2]_scanVars

\* "a;/*/*;'*/*/a;" was scanned: the `;` and the quote at depth two did
\* nothing, the inner `*/` left the comment open, the outer one closed it.
C31_Witness ==
    /\ pc = "done"
    /\ source = <<"a", ";", "/", "*", "/", "*", ";", "'", "*", "/", "*", "/", "a", ";">>
    /\ blockCommentDepth = 0
    /\ ~inSingleQuote
    /\ Len(segments) = 3
    /\ segments[2].start = 2 /\ segments[2].end = 14
    /\ Len(statements) = 2

\* How many of the five lexer states are active.
ActiveStates ==
    (IF inSingleQuote THEN 1 ELSE 0) + (IF inDoubleQuote THEN 1 ELSE 0)
        + (IF inLineComment THEN 1 ELSE 0)
        + (IF blockCommentDepth > 0 THEN 1 ELSE 0)
        + (IF dollarTag # <<>> THEN 1 ELSE 0)

\* C32: at every step of the scan at most one of the five lexer states is
\* active; the loop splits a statement only at a `;` it reads while none is
\* active, and it splits at every such `;`; so every raw segment but the one
\* of the final flush ends with a `;`.
C32_OneStateSplitsAtTopLevel ==
    /\ [](ActiveStates <= 1)
    /\ [](\A n \in DOMAIN segments :
             (n < Len(segments) \/ pc = "scan") =>
                 At(source, segments[n].end - 1) = ";")
    /\ [][(pc = "scan" /\ i < Len(source)) =>
             /\ segments' # segments =>
                   /\ AtTopLevel
                   /\ At(source, i) = ";"
                   /\ Len(segments') = Len(segments) + 1
                   /\ SubSeq(segments', 1, Len(segments)) = segments
                   /\ segments'[Len(segments')].start = statementStart
                   /\ segments'[Len(segments')].end = i + 1
                   /\ AtTopLevel'
             /\ (AtTopLevel /\ At(source, i) = ";") =>
                   Len(segments') = Len(segments) + 1]_scanVars

\* "';';" was scanned: the `;` inside the literal split nothing, the one
\* after it ended the only statement.
C32_Witness ==
    /\ pc = "done"
    /\ source = <<"'", ";", "'", ";">>
    /\ Len(segments) = 2
    /\ segments[1].start = 0 /\ segments[1].end = 4
    /\ ActiveStates = 0

----------------------------------------------------------------------------
\* The traversal of extractSqlStringGroups.

\* The number of nodes of a subtree, and of the subtrees of a list of nodes.
RECURSIVE Size(_)
RECURSIVE SizeOfFirst(_, _)
Size(node) ==
    IF node.children = <<>> THEN 1
    ELSE 1 + SizeOfFirst(node.children, Len(node.children))
SizeOfFirst(kids, n) ==
    IF n = 0 THEN 0 ELSE Size(kids[n]) + SizeOfFirst(kids, n - 1)
SizeAll(kids) == SizeOfFirst(kids, Len(kids))

\* The places of the nodes of a subtree, and what each of them gives the
\* classifier: the right-hand side of an assignment, the first named
\* argument of a call.
RECURSIVE PlacesOf(_)
RECURSIVE PlacesOfAll(_)
PlacesOf(node) == {Place(node)} \cup PlacesOfAll(node.children)
PlacesOfAll(kids) ==
    IF kids = <<>> THEN {} ELSE PlacesOf(Head(kids)) \cup PlacesOfAll(Tail(kids))

RECURSIVE OfferedBy(_)
RECURSIVE OfferedByAll(_)
OfferedBy(node) ==
    (IF CandidateNode(node) # NullNode THEN {Place(CandidateNode(node))} ELSE {})
        \cup OfferedByAll(node.children)
OfferedByAll(kids) ==
    IF kids = <<>> THEN {} ELSE OfferedBy(Head(kids)) \cup OfferedByAll(Tail(kids))

NoDuplicates(seq) == \A j, k \in DOMAIN seq : seq[j] = seq[k] => j = k

\* C33: the traversal ends after as many turns as the tree has nodes (the
\* nodes visited and the nodes of the subtrees still on the stack are
\* always the nodes of the tree), visits every node exactly once and prunes
\* nothing: every right-hand side of an assignment and every first named
\* argument of a call, whatever the callee and wherever in the tree, also
\* below a node that already gave a group, is passed to addSqlGroupFromNode
\* exactly once.
C33_TraversalVisitsAll ==
    (parser /\ xpc \in {"walk", "done"}) =>
        /\ Len(visited) + SizeAll(stack) = Size(root)
        /\ stack = <<>> =>
              /\ Range(visited) = PlacesOf(root)
              /\ Len(visited) = Cardinality(PlacesOf(root))
              /\ Range(offered) = OfferedBy(root)
              /\ Len(offered) = Cardinality(OfferedBy(root))

\* x=f("SELECT a FROM t") and g(y,"SELECT a FROM t") were walked: the call
\* on the right of the assignment gave the group, its argument below it was
\* offered all the same, and so was the first named argument y of g.
C33_Witness ==
    /\ xpc = "done"
    /\ Len(root.children) = 2
    /\ root.children[1].children[1].type = "assignment"
    /\ root.children[1].children[1].children[3].type = "call"
    /\ root.children[2].children[1].type = "call"
    /\ root.children[2].children[1].children[1].text = <<"g">>
    /\ Len(visited) = Size(root)
    /\ Len(offered) = 3
    /\ Len(groups) = 1
    /\ \E k \in DOMAIN offered : offered[k][1] = "identifier"

----------------------------------------------------------------------------
\* The completion context inside a group of several fragments.

\* The offset is in part k of the group.
InPart(group, k, offset) ==
    /\ offset >= group.parts[k].startOffset
    /\ offset <= group.parts[k].startOffset + Len(group.parts[k].text)

\* C34: for an offset inside fragment k of a group of several fragments (the
\* first group and the first fragment the offset is in),
\* getPythonSqlCompletionContext returns the content of the group as sqlText
\* and, as linePrefix, the last line of that content cut at the place of the
\* offset, the newline between two fragments included: no text of an earlier
\* fragment's line is in it.
C34_LinePrefixOfContent ==
    [][\A offset \in 0..Len(pythonSource) :
          \A g \in DOMAIN groups :
             \A k \in DOMAIN groups[g].parts :
                (/\ xpc = "walk" /\ stack = <<>> /\ xpc' = "done"
                 /\ context' = ContextInGroups(groups, offset)
                 /\ context'.found
                 /\ Len(groups[g].parts) >= 2
                 /\ InPart(groups[g], k, offset)
                 /\ \A j \in 1..(k - 1) : ~InPart(groups[g], j, offset)
                 /\ \A h \in 1..(g - 1) :
                       \A j \in DOMAIN groups[h].parts : ~InPart(groups[h], j, offset))
                =>
                (/\ context'.sqlText = groups[g].content
                 /\ context'.linePrefix
                      = LastLine(SubSeq(groups[g].content, 1,
                                        PlaceInContent(groups[g].parts, k) - 1
                                            + offset - groups[g].parts[k].startOffset)))
      ]_extractVars

----------------------------------------------------------------------------
\* buildSchemaSnapshot on any rows, and provideCompletionItems on each kind
\* of line prefix (src/src/constants/sql.ts 485-525, src/unnamed/part_004).

\* The longest list of metadata rows.
MaxRowSeq == 3

\* The rows the metadata query may return, in any order and with repeats:
\* one table under three spellings, the same table name in two schemas, a
\* column met twice, identifiers in upper case, quoted, or with a space.
SchemaRows ==
    {[table_schema |-> <<"p", "u", "b", "l", "i", "c">>, table_name |-> <<"u", "s", "e", "r", "s">>,
      column_name |-> <<"i", "d">>],
     [table_schema |-> <<"p", "u", "b", "l", "i", "c">>, table_name |-> <<"\"", "U", "s", "e", "r", "s", "\"">>,
      column_name |-> <<"i", "d">>],
     [table_schema |-> <<"p", "u", "b", "l", "i", "c">>, table_name |-> <<"U", "S", "E", "R", "S">>,
      column_name |-> <<"N", "a", "m", "e">>],
     [table_schema |-> <<"A", "p", "p", " ">>, table_name |-> <<"u", "s", "e", "r", "s">>,
      column_name |-> <<"i", "d">>],
     [table_schema |-> <<"a", "p", "p">>, table_name |-> <<"o", "r", "d", "e", "r", "s">>,
      column_name |-> <<"t", "o", "t", "a", "l">>],
     [table_schema |-> <<"p", "u", "b", "l", "i", "c">>, table_name |-> <<"u", "s", "e", "r", "s">>,
      column_name |-> <<"n", "a", "m", "e">>]}
SchemaRowLists == UNION {[1..n -> SchemaRows] : n \in 0..MaxRowSeq}

\* The SQL texts and the line prefixes completed.
AliasOfQualified ==
    [sql |-> <<"S", "E", "L", "E", "C", "T", " ", "u", ".", " ", "F", "R", "O", "M", " ", "a", "p", "p", ".", "u", "s", "e", "r", "s", " ", "u">>,
     prefix |-> <<"S", "E", "L", "E", "C", "T", " ", "u", ".">>]
BareQualifier ==
    [sql |-> <<"S", "E", "L", "E", "C", "T", " ", "u", "s", "e", "r", "s", ".", " ", "F", "R", "O", "M", " ", "u", "s", "e", "r", "s">>,
     prefix |-> <<"S", "E", "L", "E", "C", "T", " ", "u", "s", "e", "r", "s", ".">>]
AfterFrom ==
    [sql |-> <<"S", "E", "L", "E", "C", "T", " ", "*", " ", "F", "R", "O", "M", " ">>,
     prefix |-> <<"S", "E", "L", "E", "C", "T", " ", "*", " ", "F", "R", "O", "M", " ">>]
AfterSelect ==
    [sql |-> <<"S", "E", "L", "E", "C", "T", " ">>,
     prefix |-> <<"S", "E", "L", "E", "C", "T", " ">>]
EmptyPrefix ==
    [sql |-> <<>>,
     prefix |-> <<>>]
QualifierAfterFrom ==
    [sql |-> <<"D", "E", "L", "E", "T", "E", " ", "F", "R", "O", "M", " ", "a", "p", "p", ".">>,
     prefix |-> <<"D", "E", "L", "E", "T", "E", " ", "F", "R", "O", "M", " ", "a", "p", "p", ".">>]
AliasOfMissing ==
    [sql |-> <<"S", "E", "L", "E", "C", "T", " ", "n", ".", " ", "F", "R", "O", "M", " ", "a", "p", "p", ".", "n", "o", "t", "h", "i", "n", "g", " ", "n">>,
     prefix |-> <<"S", "E", "L", "E", "C", "T", " ", "n", ".">>]
AfterUpdate ==
    [sql |-> <<"U", "P", "D", "A", "T", "E", " ", "u", "s">>,
     prefix |-> <<"U", "P", "D", "A", "T", "E", " ", "u", "s">>]
AfterWhere ==
    [sql |-> <<"W", "H", "E", "R", "E", " ", "x">>,
     prefix |-> <<"W", "H", "E", "R", "E", " ", "x">>]
Contexts ==
    {AliasOfQualified,
     BareQualifier,
     AfterFrom,
     AfterSelect,
     EmptyPrefix,
     QualifierAfterFrom,
     AliasOfMissing,
     AfterUpdate,
     AfterWhere}

\* A completion is asked for in a document that is SQL or plain text; the
\* metadata query returns, or would return, metadataRows.
SchemaInit ==
    /\ IdleBesides("complete")
    /\ languageId \in {"sql", "plaintext"}
    /\ metadataRows \in SchemaRowLists
    /\ fromClauses = <<>>
    /\ \E c \in Contexts : sqlText = c.sql /\ linePrefix = c.prefix
    /\ schemaSnapshot = NoSnapshot
    /\ items = NoItems
    /\ ppc = "start"

SchemaSpec == SchemaInit /\ [][CompleteNext]_<<completeVars, besidesComplete>>

\* The identifier is trimmed, has no double quote at either end and no
\* upper-case letter.
IsNormalised(identifier) ==
    \/ identifier = <<>>
    \/ /\ Head(identifier) \notin Whitespace \cup {"\""}
       /\ identifier[Len(identifier)] \notin Whitespace \cup {"\""}
       /\ \A k \in DOMAIN identifier : identifier[k] \notin Range(UpperCase)

\* C35: every identifier stored in a built snapshot, the schema, the name,
\* the qualified name and every column of each table, is in normalised form,
\* whatever the rows.
C35_IdentifiersNormalised ==
    ppc = "ready" =>
        \A k \in DOMAIN schemaSnapshot.tables :
            /\ IsNormalised(schemaSnapshot.tables[k].schema)
            /\ IsNormalised(schemaSnapshot.tables[k].name)
            /\ schemaSnapshot.tables[k].qualifiedName
                 = schemaSnapshot.tables[k].schema \o <<".">> \o schemaSnapshot.tables[k].name
            /\ \A c \in DOMAIN schemaSnapshot.tables[k].columns :
                  IsNormalised(schemaSnapshot.tables[k].columns[c])

\* The columns of the tables of the snapshot, and the request answered on
\* the prefix of a context.
AllColumns == UNION {Range(schemaSnapshot.tables[k].columns) : k \in DOMAIN schemaSnapshot.tables}
On(c) == linePrefix = c.prefix

\* C36: provideCompletionItems gives exactly one outcome, the first that
\* applies: without completion context the empty list; without snapshot the
\* keywords alone; after a qualifier (`u.`, `users.`, also `FROM app.` and
\* `SELECT n.`) the columns of that reference and nothing else, be they
\* none; else at a table position (`FROM `, `UPDATE us`, also after a
\* select) the table items alone; else after `select` every column of every
\* table once; else the keywords and the table items.
C36_OneOutcomeByPriority ==
    ppc = "done" =>
        IF languageId # "sql" THEN items = NoItems
        ELSE IF ~schemaSnapshot.present
        THEN items = [keywords |-> TRUE, tables |-> <<>>, columns |-> <<>>]
        ELSE IF On(AliasOfQualified) \/ On(BareQualifier)
                \/ On(QualifierAfterFrom) \/ On(AliasOfMissing)
        THEN /\ ~items.keywords
             /\ items.tables = <<>>
             /\ Range(items.columns) \subseteq AllColumns
             /\ (On(QualifierAfterFrom) \/ On(AliasOfMissing)) => items.columns = <<>>
        ELSE IF On(AfterFrom) \/ On(AfterUpdate)
        THEN /\ ~items.keywords
             /\ items.columns = <<>>
             /\ Len(items.tables) = Len(schemaSnapshot.tables)
             /\ \A k \in DOMAIN items.tables :
                   items.tables[k].label = schemaSnapshot.tables[k].qualifiedName
        ELSE IF On(AfterSelect)
        THEN /\ ~items.keywords
             /\ items.tables = <<>>
             /\ NoDuplicates(items.columns)
             /\ Range(items.columns) = AllColumns
        ELSE /\ On(EmptyPrefix) \/ On(AfterWhere)
             /\ items.keywords
             /\ items.columns = <<>>
             /\ Len(items.tables) = Len(schemaSnapshot.tables)
             /\ \A k \in DOMAIN items.tables :
                   items.tables[k].label = schemaSnapshot.tables[k].qualifiedName

\* After `DELETE FROM app.` with tables known, none of them named app: the
\* qualifier wins over the table position and the list is empty.
C36_Witness ==
    /\ ppc = "done"
    /\ languageId = "sql"
    /\ schemaSnapshot.present
    /\ Len(schemaSnapshot.tables) = 3
    /\ On(QualifierAfterFrom)
    /\ items = NoItems

\* The tables of the snapshot with the qualified name, and with the name.
Qualified(name) ==
    {k \in DOMAIN schemaSnapshot.tables : schemaSnapshot.tables[k].qualifiedName = name}
Named(name) ==
    {k \in DOMAIN schemaSnapshot.tables : schemaSnapshot.tables[k].name = name}

\* C37: for a reference with a `.` (app.users, reached through its alias u;
\* app.nothing through n) resolveColumnsForReference returns the columns of
\* the table of that qualified name, none if there is no such table; for a
\* bare name (users) the columns of all the tables of that name in any
\* schema, each once. The item of a table inserts the bare name when the
\* schema is public and the qualified name otherwise.
C37_ColumnsOfReference ==
    (ppc = "done" /\ languageId = "sql" /\ schemaSnapshot.present) =>
        /\ On(AliasOfQualified) =>
              IF Qualified(<<"a", "p", "p", ".", "u", "s", "e", "r", "s">>) = {}
              THEN items.columns = <<>>
              ELSE \A k \in Qualified(<<"a", "p", "p", ".", "u", "s", "e", "r", "s">>) :
                       items.columns = schemaSnapshot.tables[k].columns
        /\ On(AliasOfMissing) => items.columns = <<>>
        /\ On(BareQualifier) =>
              /\ NoDuplicates(items.columns)
              /\ Range(items.columns)
                   = UNION {Range(schemaSnapshot.tables[k].columns) :
                               k \in Named(<<"u", "s", "e", "r", "s">>)}
        /\ \A k \in DOMAIN items.tables :
              /\ schemaSnapshot.tables[k].schema = <<"p", "u", "b", "l", "i", "c">> =>
                    items.tables[k].insertText = schemaSnapshot.tables[k].name
              /\ schemaSnapshot.tables[k].schema # <<"p", "u", "b", "l", "i", "c">> =>
                    items.tables[k].insertText = schemaSnapshot.tables[k].qualifiedName

\* `users.` with users in public (column name) and in app (column id): both
\* columns are offered.
C37_Witness ==
    /\ ppc = "done"
    /\ languageId = "sql"
    /\ On(BareQualifier)
    /\ Cardinality(Named(<<"u", "s", "e", "r", "s">>)) = 2
    /\ items.columns = <<<<"n", "a", "m", "e">>, <<"i", "d">>>>

\* The qualified name of the table a row describes, and the rows of a table.
QualifiedNameOf(row) ==
    normalizeIdentifier(row.table_schema) \o <<".">> \o normalizeIdentifier(row.table_name)
RowsOf(table) ==
    {n \in DOMAIN metadataRows : QualifiedNameOf(metadataRows[n]) = table.qualifiedName}
FirstRowWith(table, column) ==
    Min({n \in RowsOf(table) : metadataRows[n].column_name = column})

\* C38: in the snapshot built from any rows, the columns of each table are
\* pairwise distinct and in the order in which the rows first give them;
\* each table is in tables exactly once; byQualified maps its qualified
\* name to it; byName maps its bare name to a list that holds it exactly
\* once.
C38_SnapshotWellFormed ==
    ppc = "ready" =>
        /\ {schemaSnapshot.tables[k].qualifiedName : k \in DOMAIN schemaSnapshot.tables}
             = {QualifiedNameOf(metadataRows[n]) : n \in DOMAIN metadataRows}
        /\ \A j, k \in DOMAIN schemaSnapshot.tables :
              schemaSnapshot.tables[j].qualifiedName = schemaSnapshot.tables[k].qualifiedName
                  => j = k
        /\ \A k \in DOMAIN schemaSnapshot.tables :
              /\ NoDuplicates(schemaSnapshot.tables[k].columns)
              /\ Range(schemaSnapshot.tables[k].columns)
                   = {metadataRows[n].column_name : n \in RowsOf(schemaSnapshot.tables[k])}
              /\ \A c, d \in DOMAIN schemaSnapshot.tables[k].columns :
                    c < d => FirstRowWith(schemaSnapshot.tables[k],
                                          schemaSnapshot.tables[k].columns[c])
                               < FirstRowWith(schemaSnapshot.tables[k],
                                              schemaSnapshot.tables[k].columns[d])
              /\ Cardinality({e \in DOMAIN schemaSnapshot.byQualified :
                                 schemaSnapshot.byQualified[e].key
                                     = schemaSnapshot.tables[k].qualifiedName}) = 1
              /\ \A e \in DOMAIN schemaSnapshot.byQualified :
                    schemaSnapshot.byQualified[e].key = schemaSnapshot.tables[k].qualifiedName
                        => schemaSnapshot.byQualified[e].table = k
              /\ Cardinality({e \in DOMAIN schemaSnapshot.byName :
                                 schemaSnapshot.byName[e].key
                                     = schemaSnapshot.tables[k].name}) = 1
              /\ \A e \in DOMAIN schemaSnapshot.byName :
                    schemaSnapshot.byName[e].key = schemaSnapshot.tables[k].name
                        => Cardinality({p \in DOMAIN schemaSnapshot.byName[e].tables :
                                           schemaSnapshot.byName[e].tables[p] = k}) = 1

\* public.users (id), again as "Users" (id), and users of the schema `App `
\* (id): two tables, one column each, both under the name users.
C38_Witness ==
    /\ ppc = "ready"
    /\ Len(metadataRows) = 3
    /\ Len(schemaSnapshot.tables) = 2
    /\ Len(schemaSnapshot.byQualified) = 2
    /\ Len(schemaSnapshot.byName) = 1
    /\ schemaSnapshot.byName[1].tables = <<1, 2>>
    /\ schemaSnapshot.tables[1].columns = <<<<"i", "d">>>>
    /\ metadataRows[2].table_name = <<"\"", "U", "s", "e", "r", "s", "\"">>

-----------------------------------------------------------------------------
\* The first request after a saved connection.

\* C39: once saveConnectionFromValues has stored a connection and dropped
\* the cache, with no refresh failing since it wrote the connection, the
\* next getSchemaSnapshot call, when it is neither forced nor
\* interactive and finds neither a cached snapshot nor a refresh in flight,
\* starts a refresh, whose loadSchema run reads the new connection string:
\* it does not take the backoff return because of a failure over the
\* previous connection.
C39_SavedConnectionIsRefreshed ==
    [][(/\ connectionReplaced = "yes"
        /\ IsCallStep
        /\ ~Last(calls').force /\ ~Last(calls').interactive
        /\ schemaCache = Absent /\ schemaRefreshInFlight = 0)
          => /\ Last(calls').path = "start"
             /\ Last(refreshes').phase = "secret"
             /\ schemaRefreshInFlight' = Len(refreshes')]_vars

-----------------------------------------------------------------------------
\* Termination of a refresh and the in-flight marker.

\* The driver answers every metadata query: the await of line 274 returns or
\* throws.
FairSpec ==
    Spec /\ \A r \in 1..MaxCalls : WF_vars(QuerySucceed(r, 0) \/ QueryFail(r, 0))

\* The loadSchema run r awaits its metadata query.
Querying(r) == r \in DOMAIN refreshes /\ refreshes[r].phase = "query"

\* The loadSchema run r has returned.
Completed(r) == r \in DOMAIN refreshes /\ refreshes[r].phase = "done"

\* C40: when every metadata query is answered, every refresh that has sent
\* its query completes and the in-flight marker that is set while a query is
\* awaited is cleared; the marker is cleared only in the step that completes
\* the refresh it refers to, and whenever the marker is absent no refresh is
\* running.
C40_RefreshCompletesAndMarkerTracks ==
    /\ \A r \in 1..MaxCalls : Querying(r) ~> Completed(r)
    /\ (schemaRefreshInFlight # 0 /\ QueryingSet # {}) ~> (schemaRefreshInFlight = 0)
    /\ [][(schemaRefreshInFlight # 0 /\ schemaRefreshInFlight' = 0)
             => /\ refreshes[schemaRefreshInFlight].phase # "done"
                /\ refreshes'[schemaRefreshInFlight].phase = "done"]_vars
    /\ [](schemaRefreshInFlight = 0 => RunningSet = {})
====
